---------------------------- MODULE Spec2Model ----------------------------
(***************************************************************************)
(* RushJob: the poll - diff - match - notify pipeline.                     *)
(*                                                                         *)
(* The model has two layers.  The pure layer gives the string helpers, the *)
(* location resolver, the matching engine and the content fingerprint as   *)
(* operators over TLA+ strings.  The state layer gives the database tables *)
(* (committed rows, the uncommitted writes of each open session and what a *)
(* session holds in memory until its next flush), the tasks that run       *)
(* JobPollingService.poll_all_companies and _poll_company, the requests    *)
(* and the background task of the alerts API, and the process stopping.    *)
(* A task gives way to the others at each await.                           *)
(***************************************************************************)
EXTENDS Integers, Sequences, FiniteSets, TLC

(***************************************************************************)
(* Python str helpers                                                      *)
(*                                                                         *)
(* The texts of the model are written over U+0001 - U+00FF and U+1680,     *)
(* the grave accent U+0060 left out: a string of the module cannot hold    *)
(* the grave accent, nor most of the characters beyond U+00FF.  The        *)
(* classes and the case tables below are those of Python on this alphabet. *)
(* str.upper() writes U+0178 for U+00FF: that letter is written by a text  *)
(* of its own, CapitalYDiaeresis.                                          *)
(***************************************************************************)
Char(s, i) == SubSeq(s, i, i)

\* the set of the characters of a string
CharsOf(chars) == {Char(chars, i) : i \in 1..Len(chars)}

\* the characters that str.lower() changes, and what it writes for each
LowerFrom ==
    "ABCDEFGHIJKLMNOPQRSTUVWXYZÀÁÂÃÄÅÆÇÈÉÊËÌÍ"
    \o "ÎÏÐÑÒÓÔÕÖØÙÚÛÜÝÞ"
LowerTo ==
    "abcdefghijklmnopqrstuvwxyzàáâãäåæçèéêëìí"
    \o "îïðñòóôõöøùúûüýþ"
\* the characters that str.upper() changes into one character, and that
\* character
UpperFrom ==
    "abcdefghijklmnopqrstuvwxyzµàáâãäåæçèéêëì"
    \o "íîïðñòóôõöøùúûüýþ"
UpperTo ==
    "ABCDEFGHIJKLMNOPQRSTUVWXYZΜÀÁÂÃÄÅÆÇÈÉÊËÌ"
    \o "ÍÎÏÐÑÒÓÔÕÖØÙÚÛÜÝÞ"

LowerOf ==
    [c \in CharsOf(LowerFrom) |->
        Char(LowerTo, CHOOSE i \in 1..Len(LowerFrom) : Char(LowerFrom, i) = c)]
UpperOf ==
    [c \in CharsOf(UpperFrom) |->
        Char(UpperTo, CHOOSE i \in 1..Len(UpperFrom) : Char(UpperFrom, i) = c)]

LowerChar(c) == IF c \in DOMAIN LowerOf THEN LowerOf[c] ELSE c

\* the letter U+0178, which a string of the module cannot hold: a text that
\* is no part of any other text in use
CapitalYDiaeresis == "<U+0178>"

\* the sharp s is written as two letters by str.upper(), and U+00FF as
\* U+0178
UpperChar(c) ==
    IF c = "ß" THEN "SS"
    ELSE IF c = "ÿ" THEN CapitalYDiaeresis
    ELSE IF c \in DOMAIN UpperOf THEN UpperOf[c] ELSE c

\* str.lower()
RECURSIVE lower(_)
lower(s) ==
    IF s = "" THEN "" ELSE LowerChar(Char(s, 1)) \o lower(SubSeq(s, 2, Len(s)))

\* str.upper()
RECURSIVE upper(_)
upper(s) ==
    IF s = "" THEN "" ELSE UpperChar(Char(s, 1)) \o upper(SubSeq(s, 2, Len(s)))

\* Python "sub in s" on strings
Contains(sub, s) ==
    \E i \in 1..(Len(s) - Len(sub) + 1) : SubSeq(s, i, i + Len(sub) - 1) = sub

StartsWith(s, p) == Len(p) <= Len(s) /\ SubSeq(s, 1, Len(p)) = p
\* str.endswith
EndsWith(s, p) == Len(p) <= Len(s) /\ SubSeq(s, Len(s) - Len(p) + 1, Len(s)) = p

\* the whitespace of str.strip(), str.isspace() and the regex class \s
Whitespace ==
    "\t\n\f\r   "
WhitespaceChars == CharsOf(Whitespace)
IsSpace(c) == c \in WhitespaceChars

\* the characters of the regex class \w: the ASCII letters and digits, the
\* underscore and the characters beyond ASCII for which str.isalnum() holds
AsciiWord ==
    "ABCDEFGHIJKLMNOPQRSTUVWXYZabcdefghijklmnopqrstuvwxyz0123456789_"
UnicodeWord ==
    "ª²³µ¹º¼½¾ÀÁÂÃÄÅÆÇÈÉÊËÌÍÎÏÐÑÒÓÔÕÖØÙÚÛÜÝÞß"
    \o "àáâãäåæçèéêëìíîïðñòóôõöøùúûüýþÿ"
WordChars == CharsOf(AsciiWord) \cup CharsOf(UnicodeWord)
IsWordChar(c) == c \in WordChars

\* str.strip()
RECURSIVE lstrip(_)
lstrip(s) ==
    IF s # "" /\ IsSpace(Char(s, 1)) THEN lstrip(SubSeq(s, 2, Len(s))) ELSE s
RECURSIVE rstrip(_)
rstrip(s) ==
    IF s # "" /\ IsSpace(Char(s, Len(s))) THEN rstrip(SubSeq(s, 1, Len(s) - 1)) ELSE s
strip(s) == lstrip(rstrip(s))

\* str.split(sep): the sequence of pieces between the occurrences of sep,
\* scanned left to right without overlap
RECURSIVE split_from(_, _, _)
split_from(s, sep, acc) ==
    IF s = "" THEN <<acc>>
    ELSE IF StartsWith(s, sep)
         THEN <<acc>> \o split_from(SubSeq(s, Len(sep) + 1, Len(s)), sep, "")
         ELSE split_from(SubSeq(s, 2, Len(s)), sep, acc \o Char(s, 1))
split(s, sep) == split_from(s, sep, "")

\* Python "x in seq" on lists
InSeq(x, seq) == \E i \in 1..Len(seq) : seq[i] = x
SeqToSet(seq) == {seq[i] : i \in 1..Len(seq)}

(***************************************************************************)
(* Location resolver (LocationMatcher)                                     *)
(***************************************************************************)
\* the alias lists of LocationMatcher.location_mappings, in source order
location_mappings == <<
    <<"chicago", "chi", "illinois", "il">>,
    <<"new york", "nyc", "ny", "new york city", "manhattan">>,
    <<"san francisco", "sf", "ssf", "south san francisco">>,
    <<"seattle", "sea", "washington", "wa">>,
    <<"atlanta", "atl", "georgia", "ga">>,
    <<"boston", "massachusetts", "ma">>,
    <<"texas", "tx", "dallas", "austin", "houston">>,
    <<"california", "ca", "calif">>,
    <<"los angeles", "la", "los angeles county">>,
    <<"denver", "colorado", "co">>,
    <<"phoenix", "arizona", "az">>,
    <<"portland", "oregon", "or">>,
    <<"miami", "florida", "fl">>,
    <<"philadelphia", "philly", "pennsylvania", "pa">>,
    <<"detroit", "michigan", "mi">>,
    <<"las vegas", "vegas", "nevada", "nv">>,
    <<"salt lake city", "slc", "utah", "ut">>,
    <<"minneapolis", "minnesota", "mn">>,
    <<"nashville", "tennessee", "tn">>,
    <<"raleigh", "north carolina", "nc">>,
    <<"charlotte", "north carolina", "nc">>,
    <<"richmond", "virginia", "va">>,
    <<"pittsburgh", "pennsylvania", "pa">>,
    <<"remote", "us-remote", "us remote", "remote us", "remote in us", "remote in the us", "work from home", "wfh", "telecommute", "distributed", "anywhere">>,
    <<"us", "usa", "united states", "america", "amer", "national us">>,
    <<"canada", "ca", "toronto", "ca-remote", "can-remote", "ca-toronto", "vancouver", "montreal", "ottawa", "calgary">>,
    <<"london", "uk", "united kingdom", "england", "great britain">>,
    <<"dublin", "ireland", "dublin hq">>,
    <<"berlin", "germany", "de-berlin", "deutschland">>,
    <<"paris", "france">>,
    <<"madrid", "spain">>,
    <<"barcelona", "spain">>,
    <<"bucharest", "romania">>,
    <<"amsterdam", "netherlands", "holland">>,
    <<"zurich", "switzerland">>,
    <<"stockholm", "sweden">>,
    <<"oslo", "norway">>,
    <<"copenhagen", "denmark">>,
    <<"helsinki", "finland">>,
    <<"vienna", "austria">>,
    <<"warsaw", "poland">>,
    <<"prague", "czech republic">>,
    <<"budapest", "hungary">>,
    <<"lisbon", "portugal">>,
    <<"rome", "italy">>,
    <<"milan", "italy">>,
    <<"tokyo", "japan">>,
    <<"singapore">>,
    <<"sydney", "australia">>,
    <<"melbourne", "australia">>,
    <<"bangalore", "bengaluru", "india">>,
    <<"mumbai", "bombay", "india">>,
    <<"delhi", "new delhi", "india">>,
    <<"hyderabad", "india">>,
    <<"pune", "india">>,
    <<"chennai", "madras", "india">>,
    <<"hong kong", "hk">>,
    <<"seoul", "south korea", "korea">>,
    <<"beijing", "china">>,
    <<"shanghai", "china">>,
    <<"taipei", "taiwan">>,
    <<"bangkok", "thailand">>,
    <<"manila", "philippines">>,
    <<"jakarta", "indonesia">>,
    <<"kuala lumpur", "malaysia">>,
    <<"mexico city", "mexico", "mx", "cdmx">>,
    <<"sao paulo", "brazil">>,
    <<"buenos aires", "argentina">>,
    <<"santiago", "chile">>,
    <<"bogota", "colombia">>,
    <<"tel aviv", "israel">>,
    <<"emea", "europe", "europe middle east africa">>,
    <<"apac", "asia pacific", "asia-pacific">>,
    <<"latam", "latin america">>,
    <<"mena", "middle east north africa">>
    >>

RECURSIVE filter_chars(_)
\* re.sub(r'[^\w\s,;/-]', '', s)
filter_chars(s) ==
    IF s = "" THEN ""
    ELSE LET c == Char(s, 1)
             keep == IsWordChar(c) \/ IsSpace(c) \/ c \in {",", ";", "/", "-"}
         IN  (IF keep THEN c ELSE "") \o filter_chars(SubSeq(s, 2, Len(s)))

RECURSIVE collapse_spaces(_)
\* re.sub(r'\s+', ' ', s)
collapse_spaces(s) ==
    IF s = "" THEN ""
    ELSE IF IsSpace(Char(s, 1))
         THEN " " \o collapse_spaces(lstrip(s))
         ELSE Char(s, 1) \o collapse_spaces(SubSeq(s, 2, Len(s)))

\* re.sub(r'^(us-|ca-|uk-)', '', s)
strip_prefix(s) ==
    IF StartsWith(s, "us-") \/ StartsWith(s, "ca-") \/ StartsWith(s, "uk-")
    THEN SubSeq(s, 4, Len(s))
    ELSE s

\* the regex w$ matches in s: $ is the end of the string or the place before
\* a line feed that ends the string
AtEnd(s, w) == EndsWith(s, w) \/ EndsWith(s, w \o "\n")

\* re.sub(r'\s+(hq|headquarters)$', '', s) for one word w of the two: the
\* word at the end and the whitespace before it are cut out, a line feed
\* after the word stays
strip_suffix_word(s, w) ==
    LET rest == IF EndsWith(s, w) THEN "" ELSE "\n"
        base == SubSeq(s, 1, Len(s) - Len(w) - Len(rest))
    IN  IF AtEnd(s, w) /\ base # "" /\ IsSpace(Char(base, Len(base)))
        THEN rstrip(base) \o rest
        ELSE s
strip_hq(s) ==
    IF AtEnd(s, "headquarters")
    THEN strip_suffix_word(s, "headquarters")
    ELSE strip_suffix_word(s, "hq")

separators == <<",", ";", " and ", " or ", "/">>
noise_words == {"and", "or", "the", "area", "metro", "region", "greater"}

\* [part.strip() for part in parts]
RECURSIVE strip_each(_)
strip_each(parts) ==
    IF parts = <<>> THEN <<>>
    ELSE <<strip(Head(parts))>> \o strip_each(Tail(parts))

\* the for/else of normalize_location: the stripped parts of the first
\* separator, in list order, that occurs in the string; the whole string,
\* as it is, if none occurs
split_parts(cleaned) ==
    IF \E i \in 1..Len(separators) : Contains(separators[i], cleaned)
    THEN LET first == CHOOSE i \in 1..Len(separators) :
                         /\ Contains(separators[i], cleaned)
                         /\ \A j \in 1..(i - 1) : ~Contains(separators[j], cleaned)
         IN  strip_each(split(cleaned, separators[first]))
    ELSE <<cleaned>>

RECURSIVE keep_parts(_)
keep_parts(parts) ==
    IF parts = <<>> THEN <<>>
    ELSE LET part == strip(Head(parts))
         IN  (IF part # "" /\ part \notin noise_words THEN <<part>> ELSE <<>>)
                 \o keep_parts(Tail(parts))

normalize_location(location) ==
    IF location = "" THEN <<>>
    ELSE LET cleaned == strip(collapse_spaces(filter_chars(
                            strip_hq(strip_prefix(lower(location))))))
         IN  keep_parts(split_parts(cleaned))

\* a variant of the comparison that looks for a part of the job in the
\* target only, not the other way round; LocationMatchSymmetric does not
\* hold with it
match_parts_one_way(job_parts, target_parts) ==
    /\ job_parts # <<>> /\ target_parts # <<>>
    /\ \E i \in 1..Len(job_parts) : \E j \in 1..Len(target_parts) :
           Contains(job_parts[i], target_parts[j])

\* a variant of the comparison that only looks at the first part of the
\* job location; AnySubLocationMatches does not hold with it
match_parts_first_only(job_parts, target_parts) ==
    /\ job_parts # <<>> /\ target_parts # <<>>
    /\ \E j \in 1..Len(target_parts) :
           \/ Contains(job_parts[1], target_parts[j])
           \/ Contains(target_parts[j], job_parts[1])

\* match_location, lines 171-211: the comparison of the normalized parts
match_parts(job_parts, target_parts) ==
    LET direct ==
            \E i \in 1..Len(job_parts) : \E j \in 1..Len(target_parts) :
                \/ job_parts[i] = target_parts[j]
                \/ Contains(job_parts[i], target_parts[j])
                \/ Contains(target_parts[j], job_parts[i])
        hits(parts, aliases) ==
            \E p \in 1..Len(parts) : \E a \in 1..Len(aliases) :
                Contains(aliases[a], parts[p]) \/ Contains(parts[p], aliases[a])
        alias ==
            \E g \in 1..Len(location_mappings) :
                /\ hits(job_parts, location_mappings[g])
                /\ hits(target_parts, location_mappings[g])
    IN  IF job_parts = <<>> \/ target_parts = <<>> THEN FALSE
        ELSE direct \/ alias

match_location(job_location, target_location) ==
    IF job_location = "" \/ target_location = "" THEN FALSE
    ELSE match_parts(normalize_location(job_location),
                     normalize_location(target_location))

remote_indicators ==
    <<"remote", "work from home", "wfh", "telecommute", "distributed",
      "anywhere", "virtual", "home-based", "home based">>

is_remote_location(location) ==
    IF location = "" THEN FALSE
    ELSE \E i \in 1..Len(remote_indicators) :
             Contains(remote_indicators[i], lower(location))

(***************************************************************************)
(* Matching engine (JobMatcher._job_matches_alert)                         *)
(*                                                                         *)
(* job: a row of the jobs table; alert: a row of user_alerts; slug: the    *)
(* slug of the company row with id job.company_id.  An Optional column     *)
(* that is None or "" is the empty string here: the code tests both by     *)
(* truthiness.                                                             *)
(***************************************************************************)
company_filter_ok(slug, alert) ==
    alert.company_slugs = <<>> \/ InSeq(slug, alert.company_slugs)

title_keywords_ok(job, alert) ==
    \/ alert.title_keywords = <<>>
    \/ \E i \in 1..Len(alert.title_keywords) :
           Contains(lower(alert.title_keywords[i]), lower(job.title))

\* a variant of the exclude filter that compares the keyword as written;
\* ExcludeKeywordRejects does not hold with it
title_exclude_ok_cased(job, alert) ==
    \/ alert.title_exclude_keywords = <<>>
    \/ ~\E i \in 1..Len(alert.title_exclude_keywords) :
           Contains(alert.title_exclude_keywords[i], job.title)

title_exclude_ok(job, alert) ==
    \/ alert.title_exclude_keywords = <<>>
    \/ ~\E i \in 1..Len(alert.title_exclude_keywords) :
           Contains(lower(alert.title_exclude_keywords[i]), lower(job.title))

department_ok(job, alert) ==
    (alert.departments # <<>> /\ job.department # "")
        => InSeq(job.department, alert.departments)

location_ok(job, alert) ==
    (alert.locations # <<>> /\ job.location # "")
        => \/ \E i \in 1..Len(alert.locations) :
                  match_location(job.location, alert.locations[i])
           \/ alert.include_remote /\ is_remote_location(job.location)

job_type_ok(job, alert) ==
    (alert.job_types # <<>> /\ job.job_type # "")
        => InSeq(job.job_type, alert.job_types)

\* a variant of the last check that also turns down a job without a
\* location; EmptyCriteriaAcceptBareJob does not hold with it
remote_ok_located(job, alert) ==
    ~alert.include_remote
        => (job.location # "" /\ ~is_remote_location(job.location))

\* a variant of the last check that lets a remote job pass when one of the
\* alert's locations matched it; RemoteExclusionOverrides does not hold
\* with it
remote_ok_unlisted(job, alert) ==
    (/\ ~alert.include_remote /\ job.location # ""
     /\ ~\E i \in 1..Len(alert.locations) :
            match_location(job.location, alert.locations[i]))
        => ~is_remote_location(job.location)

remote_ok(job, alert) ==
    (~alert.include_remote /\ job.location # "")
        => ~is_remote_location(job.location)

job_matches_alert(job, slug, alert) ==
    /\ company_filter_ok(slug, alert)
    /\ title_keywords_ok(job, alert)
    /\ title_exclude_ok(job, alert)
    /\ department_ok(job, alert)
    /\ location_ok(job, alert)
    /\ job_type_ok(job, alert)
    /\ remote_ok(job, alert)

(***************************************************************************)
(* Source adapter: the fingerprint of a fetched record                     *)
(*                                                                         *)
(* content_hash is sha256 of the string built here.  The model keeps the   *)
(* string itself: two fingerprints are equal exactly when the hashed       *)
(* strings are equal (sha256 taken as injective on the inputs in use).     *)
(***************************************************************************)
\* GreenhouseJob._parse_location applied to location.name; a location
\* without a name is the empty name
country_prefixes == {"US", "CA", "UK", "DE", "FR", "AU"}

parse_location(name) ==
    IF name = "" THEN ""
    ELSE IF Contains("remote", lower(name)) THEN "Remote"
    ELSE IF /\ Contains("-", name)
            /\ Len(split(name, "-")) = 2
            /\ upper(split(name, "-")[1]) \in country_prefixes
         THEN strip(split(name, "-")[2])
         ELSE strip(name)

\* None in a string column or JSON field: a text kept apart from the texts
\* of the records and requests in use
None == "<None>"

\* the text an f-string writes for a field: None is written "None"
fstr(v) == IF v = None THEN "None" ELSE v

content_hash(gh_job) ==
    fstr(gh_job.title) \o "|" \o fstr(gh_job.location) \o "|"
        \o fstr(gh_job.department) \o "|" \o fstr(gh_job.job_type)

(***************************************************************************)
(* Bounds of the model                                                     *)
(***************************************************************************)
MaxTime == 1        \* the clock runs from 0 to MaxTime
TickMinutes == 20   \* minutes between two readings of the clock
MaxPollLogs == 2    \* poll attempts (rows of poll_logs) over a run
MaxAlerts == 2      \* rows of user_alerts over a run
MaxCrashes == 1     \* times the process stops and is started again
MaxRequests == 1    \* requests the clients of the alerts API make over a run

(***************************************************************************)
(* Values                                                                  *)
(***************************************************************************)
NULL == -1              \* a timestamp column that is None

\* the two tasks that run the poller, each with a JobPollingService and an
\* AsyncSession of its own: the scheduler loop and a POST /poll-now request
Sweeps == {"scheduler", "manual"}

\* rows of the companies table at start: the first two rows that cli init
\* and POST /companies/seed write (greenhouse.py, lines 187-188), active
\* and never polled, with the poll interval of the column default (15
\* minutes).  A later POST /companies/seed finds both slugs and
\* leaves the rows as they are, and POST /companies/update-slugs writes the
\* row with slug doordash only
InitCompanies ==
    [c \in {1, 2} |->
        [id |-> c,
         slug |-> IF c = 1 THEN "stripe" ELSE "airbnb",
         ats_type |-> "greenhouse",
         is_active |-> TRUE,
         poll_interval_minutes |-> 15,
         last_polled_at |-> NULL]]

\* a GreenhouseJob as fetch_jobs returns it
GreenhouseJob(id, title, url, raw) ==
    [id |-> id, title |-> title, location |-> "Seattle", department |-> "Eng",
     job_type |-> "Full-time", absolute_url |-> url, raw_data |-> raw]

J1 == GreenhouseJob("101", "Engineer", "u/101", "r1")
\* J1 with a new URL only: the same fingerprint
J1u == GreenhouseJob("101", "Engineer", "u/101-b", "r2")
\* J1 with a new title: another fingerprint
J1b == GreenhouseJob("101", "Staff Engineer", "u/101", "r3")
\* a record whose absolute_url is JSON null
JNull == GreenhouseJob("103", "Analyst", None, "r4")
K1 == GreenhouseJob("201", "Designer", "u/201", "r5")

\* the lists the upstream board of a company may answer with
Upstream(company_id) ==
    IF company_id = 1
    THEN {<<J1>>, <<J1u, J1b>>, <<J1, JNull>>}
    ELSE {<<K1>>}

\* the request bodies POST /alerts is called with: discord_webhook_url is
\* optional (schemas/alerts.py, line 24)
AlertRequests ==
    {[name |-> "stripe engineers", company_slugs |-> <<"stripe">>,
      title_keywords |-> <<"engineer">>, title_exclude_keywords |-> <<>>,
      departments |-> <<>>, locations |-> <<>>, job_types |-> <<>>,
      include_remote |-> TRUE, discord_webhook_url |-> url] :
        url \in {"hook/a", None}}

\* create_alert, lines 268-283: the row of a new alert.  updated_at is the
\* column with server_default=func.now() and onupdate=func.now(): the time
\* of the INSERT, then the time of every UPDATE of the row
db_alert(id, request, created_at) ==
    [id |-> id, name |-> request.name, is_active |-> TRUE,
     company_slugs |-> request.company_slugs,
     title_keywords |-> request.title_keywords,
     title_exclude_keywords |-> request.title_exclude_keywords,
     departments |-> request.departments,
     locations |-> request.locations,
     job_types |-> request.job_types,
     include_remote |-> request.include_remote,
     discord_webhook_url |-> request.discord_webhook_url,
     updated_at |-> created_at,
     last_notified_at |-> NULL]

\* rows of user_alerts at start: one alert made before any job was stored
InitAlerts ==
    {db_alert(1, (CHOOSE r \in AlertRequests : r.discord_webhook_url # None), 0)}

(***************************************************************************)
(* State                                                                   *)
(***************************************************************************)
VARIABLES
    now,            \* datetime.utcnow()
    companies,      \* committed rows of companies, by id
    jobs,           \* committed rows of jobs
    user_alerts,    \* committed rows of user_alerts
    notifications,  \* committed rows of notifications: the ledger
    poll_logs,      \* committed rows of poll_logs, in insertion order
    session,        \* per poller task: its AsyncSession
    sweep,          \* per poller task: the await it is suspended at, and its locals
    background,     \* the requests and background tasks of the alerts API in flight
    api,            \* the sequence of user_alerts.id, and the requests still to come
    deliveries,     \* history: successful sends per (alert, source, external id)
    crashes,        \* history: times the process stopped
    fetched,        \* history: the list fetch_jobs returned to each poll attempt
    dispatch,       \* DiscordNotifier on its own: the batch and the posted messages
    scheduler,      \* PollingScheduler and the lifespan of the application
    call            \* a pure function on its own: the arguments and the result

\* the database and the tasks of the service
service == <<now, companies, jobs, user_alerts, notifications, poll_logs, session,
             sweep, background, api, deliveries, crashes, fetched>>

\* the parts of the program that are modelled on their own
detached == <<dispatch, scheduler, call>>

vars == <<service, detached>>

db == <<companies, jobs, user_alerts, notifications, poll_logs>>

\* an AsyncSession without open transaction.  began is the time its
\* transaction began.  What the session has sent to the database and not
\* committed: jobs (rows inserted or updated), notifications (rows
\* inserted), last_notified (per alert row updated, <<alert id,
\* last_notified_at, updated_at>>) and last_polled (<<company id,
\* last_polled_at>>).  What was changed in memory and is sent with the next
\* flush: dirty_job (a loaded Job whose attributes were set: the row as
\* loaded and the object as it is now), added (a Notification handed to
\* db.add) and dirty_alert (an alert whose last_notified_at was set).
EmptySession ==
    [began |-> NULL, jobs |-> {}, notifications |-> {}, last_notified |-> {},
     last_polled |-> {}, dirty_job |-> <<>>, added |-> <<>>,
     dirty_alert |-> <<>>]

\* the dictionary _poll_company returns
ZeroCompanyStats ==
    [success |-> FALSE, jobs_found |-> 0, new_jobs |-> 0, updated_jobs |-> 0,
     notifications_sent |-> 0, notifications_failed |-> 0]

\* the dictionary _process_job returns
ZeroJobResult ==
    [is_new |-> FALSE, is_updated |-> FALSE, notifications_sent |-> 0,
     notifications_failed |-> 0]

\* a poller task that is in none of the methods.  pc names the await the
\* task is suspended at; result tells how its last call ended.  alerts and
\* matching_alerts are lists of UserAlert objects, written by their ids;
\* loaded holds the objects as the select of find_matching_alerts loaded
\* them
IdleSweep ==
    [pc |-> "idle", result |-> "none", company |-> 0, poll_log |-> 0,
     gh_jobs |-> <<>>, job |-> <<>>, alerts |-> <<>>, matching_alerts |-> <<>>,
     loaded |-> {},
     company_stats |-> ZeroCompanyStats, job_result |-> ZeroJobResult,
     last_polled_at |-> NULL, completed_at |-> NULL, error_message |-> None]

ExternalIds == {"101", "103", "201"}
DeliveryKeys == (1..MaxAlerts) \X (DOMAIN InitCompanies) \X ExternalIds

\* the database, the tasks and the histories at start, with the rows of
\* the companies table and the number of requests that the clients of the
\* alerts API make
Started(rows, requests) ==
    /\ now = 0
    /\ companies = rows
    /\ jobs = {}
    /\ user_alerts = InitAlerts
    /\ notifications = {}
    /\ poll_logs = <<>>
    /\ session = [s \in Sweeps |-> EmptySession]
    /\ sweep = [s \in Sweeps |-> IdleSweep]
    /\ background = {}
    /\ api = [alert_id |-> Cardinality(InitAlerts), requests |-> requests]
    /\ deliveries = [k \in DeliveryKeys |-> 0]
    /\ crashes = 0
    /\ fetched = <<>>

ServiceInit == Started(InitCompanies, MaxRequests)

\* no batch is handed to the notifier
NoDispatch ==
    [pc |-> "idle", alert |-> <<>>, jobs |-> <<>>, pending |-> <<>>,
     calls |-> <<>>, outbox |-> <<>>, tests |-> <<>>]

\* PollingScheduler.__init__, and the application before its startup; sweeps
\* and errors count the sweeps the loop started and the ones that raised,
\* closed holds the HTTP clients of the polling service that are closed
NoScheduler ==
    [is_running |-> FALSE, pc |-> "none", app |-> "startup", closed |-> {},
     sweeps |-> 0, errors |-> 0]

\* no function is being applied
NoCall == [fn |-> "none", args |-> <<>>, result |-> "none"]

Init ==
    /\ ServiceInit
    /\ dispatch = NoDispatch /\ scheduler = NoScheduler /\ call = NoCall

(***************************************************************************)
(* The database as a session sees it                                       *)
(*                                                                         *)
(* A session reads the committed rows and what it has sent itself (read    *)
(* committed).  A row written by a session stays locked until that session *)
(* commits or rolls back: a statement of another session that writes the   *)
(* row waits.  A statement and the autoflush before it are one step, taken *)
(* when the statement completes.                                           *)
(***************************************************************************)
jobs_of(ss) == {j \in jobs : ~\E p \in ss.jobs : p.id = j.id} \cup ss.jobs
notifications_of(ss) == notifications \cup ss.notifications
user_alerts_of(ss) ==
    {IF \E u \in ss.last_notified : u[1] = a.id
     THEN LET u == CHOOSE w \in ss.last_notified : w[1] = a.id
          IN  [a EXCEPT !.last_notified_at = u[2], !.updated_at = u[3]]
     ELSE a : a \in user_alerts}
companies_of(ss) ==
    [c \in DOMAIN companies |->
        IF \E u \in ss.last_polled : u[1] = c
        THEN [companies[c] EXCEPT !.last_polled_at =
                  (CHOOSE u \in ss.last_polled : u[1] = c)[2]]
        ELSE companies[c]]

view_jobs(s) == jobs_of(session[s])
view_notifications(s) == notifications_of(session[s])

pending_jobs == UNION {session[o].jobs : o \in Sweeps}
pending_notifications == UNION {session[o].notifications : o \in Sweeps}

\* the primary key the next inserted row gets
next_id(rows) ==
    CHOOSE i \in 1..(Cardinality(rows) + 1) : i \notin {r.id : r \in rows}

\* another session holds an uncommitted write of the jobs row with this key
locked_elsewhere(s, company_id, external_id) ==
    \E o \in Sweeps \ {s} : \E p \in session[o].jobs :
        p.company_id = company_id /\ p.external_id = external_id

\* a session of a poller task other than s holds an uncommitted UPDATE of
\* this row of user_alerts
alert_locked_elsewhere(s, alert_id) ==
    \E o \in Sweeps \ {s} : \E u \in session[o].last_notified : u[1] = alert_id

\* a session of a poller task holds an uncommitted UPDATE of the alert row
alert_locked(alert_id) ==
    \E o \in Sweeps : \E u \in session[o].last_notified : u[1] = alert_id

\* a session of a poller task holds an uncommitted INSERT of a ledger row
\* of the alert: the foreign key of the row locks the key of the alert row
\* against a DELETE, not against an UPDATE of its other columns
alert_referenced(alert_id) ==
    \E o \in Sweeps : \E n \in session[o].notifications : n.alert_id = alert_id

\* the committed table has a row of the alert
alert_stored(alert_id) == \E a \in user_alerts : a.id = alert_id

\* a session of a poller task other than s holds an uncommitted UPDATE of
\* this row of companies
company_locked_elsewhere(s, company_id) ==
    \E o \in Sweeps \ {s} : \E u \in session[o].last_polled : u[1] = company_id

same_key(j, company_id, external_id) ==
    j.company_id = company_id /\ j.external_id = external_id

\* a jobs table without the unique constraint; StoredKeyUnique does not hold
\* with it
uq_not_declared(row) == row.id = row.id

\* UniqueConstraint("company_id", "external_id") and the nullable=False
\* columns of Job, checked when a row is flushed
uq_company_job(row) ==
    ~\E j \in jobs : j.id # row.id /\ same_key(j, row.company_id, row.external_id)
not_null(row) == row.title # None /\ row.external_url # None
flush_ok(row) == uq_company_job(row) /\ not_null(row)

\* the UPDATE the unit of work writes for a Job changed in memory: the
\* columns whose value differs from the loaded one are set in the row as it
\* is in the database now.  last_seen_at is among them: the clock value it
\* was given is never the stored one
flushed_job(current, dirty) ==
    [c \in DOMAIN current |->
        IF c = "last_seen_at" \/ dirty.object[c] # dirty.loaded[c]
        THEN dirty.object[c] ELSE current[c]]

\* the row the pending UPDATE of ss.dirty_job makes
dirty_row(ss) ==
    flushed_job(CHOOSE j \in jobs_of(ss) : j.id = ss.dirty_job[1].loaded.id,
                ss.dirty_job[1])

\* the flush of ss waits for no row lock of another session
can_flush(s) ==
    LET ss == session[s]
    IN  /\ ss.dirty_job # <<>> =>
               ~locked_elsewhere(s, ss.dirty_job[1].loaded.company_id,
                                 ss.dirty_job[1].loaded.external_id)
        /\ ss.dirty_alert # <<>> =>
               ~alert_locked_elsewhere(s, ss.dirty_alert[1].id)

\* the flush is refused: the UPDATE of the changed Job violates a
\* constraint of the jobs table, the UPDATE of the alert finds no row
\* (StaleDataError: the alert was deleted after it was loaded), or the
\* INSERT of the ledger row violates the foreign key
\* notifications.alert_id, which every database with the row locks of this
\* model enforces
flush_raises(ss) ==
    \/ ss.dirty_job # <<>> /\ ~not_null(dirty_row(ss))
    \/ ss.dirty_alert # <<>> /\ ~alert_stored(ss.dirty_alert[1].id)
    \/ ss.added # <<>> /\ ~alert_stored(ss.added[1].alert_id)

\* the autoflush before a statement of ss and the flush of its commit.  The
\* first statement of a session after a commit begins its transaction.  The
\* UPDATE of the changed Job, the INSERT of the added Notification and the
\* UPDATE of the alert whose last_notified_at was set are sent;
\* onupdate=func.now() stamps updated_at of the alert: with the time of the
\* statement, or, on PostgreSQL, with the time the transaction began
autoflush(ss) ==
    LET began == IF ss.began = NULL THEN now ELSE ss.began
        job_rows ==
            IF ss.dirty_job = <<>> THEN ss.jobs
            ELSE {p \in ss.jobs : p.id # ss.dirty_job[1].loaded.id}
                     \cup {dirty_row(ss)}
        rows ==
            IF ss.added = <<>> THEN ss.notifications
            ELSE ss.notifications \cup
                     {[id |-> next_id(notifications \cup pending_notifications)]
                          @@ ss.added[1]}
    IN  {[ss EXCEPT
             !.began = began,
             !.jobs = job_rows,
             !.dirty_job = <<>>,
             !.notifications = rows,
             !.added = <<>>,
             !.last_notified =
                 IF ss.dirty_alert = <<>> THEN @
                 ELSE {u \in @ : u[1] # ss.dirty_alert[1].id}
                          \cup {<<ss.dirty_alert[1].id,
                                  ss.dirty_alert[1].last_notified_at, stamp>>},
             !.dirty_alert = <<>>] :
            stamp \in {now, began}}

\* the sessions a statement of the task s leaves when it completes: none as
\* long as its flush waits for a lock, or when its flush raises
Flushes(s) ==
    IF can_flush(s) /\ ~flush_raises(session[s])
    THEN autoflush(session[s]) ELSE {}

\* session.commit(): the writes of ss, all flushed, become the committed rows
commit(s, ss) ==
    /\ jobs' = jobs_of(ss)
    /\ notifications' = notifications_of(ss)
    /\ user_alerts' = user_alerts_of(ss)
    /\ companies' = companies_of(ss)
    /\ session' = [session EXCEPT ![s] = EmptySession]

\* the transaction of a failed flush is rolled back
rollback(s) ==
    /\ session' = [session EXCEPT ![s] = EmptySession]
    /\ UNCHANGED <<jobs, notifications, user_alerts, companies>>

\* result.scalars().all() of a SELECT without ORDER BY that finds the rows
\* S: the lists that hold each row once; the order is the database's choice
RECURSIVE orderings(_)
orderings(S) ==
    IF S = {} THEN {<<>>}
    ELSE UNION {{<<x>> \o rest : rest \in orderings(S \ {x})} : x \in S}

\* the committed row of an alert
alert_row(alert_id) == CHOOSE a \in user_alerts : a.id = alert_id

\* the UserAlert object of a poller task: the session was made with
\* expire_on_commit=False (database.py, lines 21-25) and no statement of
\* the poll loads the row again while the object is in use, so the object
\* holds the row as the select of find_matching_alerts found it, whatever
\* PUT /alerts and DELETE /alerts have stored since
loaded_alert(sw, alert_id) == CHOOSE a \in sw.loaded : a.id = alert_id

(***************************************************************************)
(* JobPollingService.poll_all_companies.  _get_companies_to_poll builds    *)
(* its WHERE clause with timedelta(minutes=Company.poll_interval_minutes)  *)
(* (line 103): timedelta refuses the column with a TypeError before the    *)
(* statement is sent, so the method raises on every call and the loop over *)
(* the companies (lines 49-75) is never entered.                           *)
(***************************************************************************)
\* a variant in which the select answers with a row of the table, whatever
\* its is_active and last_polled_at are, and the loop begins the poll of
\* that company; PolledOnlyWhenDue does not hold with it
SelectsAnyCompany(s) ==
    /\ sweep[s].pc = "idle"
    /\ Len(poll_logs) < MaxPollLogs
    /\ \E company_id \in DOMAIN companies :
           /\ poll_logs' = Append(poll_logs,
                  [company_id |-> company_id, status |-> "running",
                   completed_at |-> NULL, jobs_found |-> 0, new_jobs |-> 0,
                   updated_jobs |-> 0, error_message |-> None])
           /\ sweep' = [sweep EXCEPT ![s] = [IdleSweep EXCEPT !.pc = "close"]]
           /\ fetched' = Append(fetched, <<>>)
    /\ UNCHANGED detached
    /\ UNCHANGED <<now, companies, jobs, user_alerts, notifications, session,
                   background, api, deliveries, crashes>>

\* poll_all_companies, lines 32-48 and 103: the session is made and
\* _get_companies_to_poll raises; the exception leaves the async with
\* block, whose exit awaits the close of the session
SelectRaises(s) ==
    /\ sweep[s].pc = "idle"
    /\ sweep' = [sweep EXCEPT ![s] = [IdleSweep EXCEPT !.pc = "close"]]
    /\ UNCHANGED detached
    /\ UNCHANGED <<now, db, session, background, api,
                   deliveries, crashes, fetched>>

\* poll_all_companies, lines 45 and 77-80: the session is closed and the
\* except branch raises the exception again
CloseSession(s) ==
    /\ sweep[s].pc = "close"
    /\ sweep' = [sweep EXCEPT ![s] = [IdleSweep EXCEPT !.result = "raised"]]
    /\ UNCHANGED detached
    /\ UNCHANGED <<now, db, session, background, api,
                   deliveries, crashes, fetched>>

(***************************************************************************)
(* JobPollingService._poll_company and what it calls, called with a        *)
(* session without open transaction and a row of the companies table.      *)
(* Each action is the completion of one await and the code that runs up to *)
(* the next await: another task can run between two actions.  A value read *)
(* from the clock is the clock of the action that reads it.                *)
(***************************************************************************)
\* _poll_company, lines 147-148 and 158-163: the loop goes to the next
\* record and its select is sent; after the last record the UPDATE of the
\* company is built, with the clock read as it is built
next_record(sw) ==
    IF sw.gh_jobs # <<>>
    THEN [sw EXCEPT !.pc = "select"]
    ELSE [sw EXCEPT !.pc = "stamp", !.last_polled_at = now]

\* a variant that counts every record that is not new as updated;
\* RepeatedPollIdempotent does not hold with it
job_done_miscounted(sw) ==
    next_record(
        [sw EXCEPT
            !.gh_jobs = Tail(@),
            !.job = <<>>,
            !.alerts = <<>>,
            !.matching_alerts = <<>>,
            !.loaded = {},
            !.job_result = ZeroJobResult,
            !.company_stats =
                [@ EXCEPT
                    !.new_jobs = IF sw.job_result.is_new THEN @ + 1 ELSE @,
                    !.updated_jobs = IF ~sw.job_result.is_new THEN @ + 1 ELSE @,
                    !.notifications_sent = @ + sw.job_result.notifications_sent,
                    !.notifications_failed = @ + sw.job_result.notifications_failed]])

\* a variant that leaves the deliveries of the record out of the counts of
\* the company; SweepStatisticsConsistent does not hold with it
job_done_unsummed(sw) ==
    next_record(
        [sw EXCEPT
            !.gh_jobs = Tail(@),
            !.job = <<>>,
            !.alerts = <<>>,
            !.matching_alerts = <<>>,
            !.loaded = {},
            !.job_result = ZeroJobResult,
            !.company_stats =
                [@ EXCEPT
                    !.new_jobs = IF sw.job_result.is_new THEN @ + 1 ELSE @,
                    !.updated_jobs =
                        IF ~sw.job_result.is_new /\ sw.job_result.is_updated
                        THEN @ + 1 ELSE @]])

\* lines 150-156 of _poll_company: _process_job returned; the result of the
\* record is counted and the loop moves on
job_done(sw) ==
    next_record(
        [sw EXCEPT
            !.gh_jobs = Tail(@),
            !.job = <<>>,
            !.alerts = <<>>,
            !.matching_alerts = <<>>,
            !.loaded = {},
            !.job_result = ZeroJobResult,
            !.company_stats =
                [@ EXCEPT
                    !.new_jobs = IF sw.job_result.is_new THEN @ + 1 ELSE @,
                    !.updated_jobs =
                        IF ~sw.job_result.is_new /\ sw.job_result.is_updated
                        THEN @ + 1 ELSE @,
                    !.notifications_sent = @ + sw.job_result.notifications_sent,
                    !.notifications_failed = @ + sw.job_result.notifications_failed]])

\* lines 182-187 of _poll_company: an exception reached the except branch;
\* the audit entry is changed in memory and the commit is awaited
except_branch(sw, error) ==
    [sw EXCEPT !.pc = "failed", !.completed_at = now, !.error_message = error]

\* a variant of the except branch that also stamps last_polled_at;
\* LastPolledOnlyOnSuccess does not hold with it
poll_failed_stamped(s, sw) ==
    /\ poll_logs' = [poll_logs EXCEPT ![sw.poll_log] =
           [@ EXCEPT !.status = "error", !.completed_at = sw.completed_at,
                     !.error_message = sw.error_message]]
    /\ \E flushed \in Flushes(s) :
           commit(s, [flushed EXCEPT !.last_polled = {<<sw.company, now>>}])
    /\ sweep' = [sweep EXCEPT ![s] = [IdleSweep EXCEPT !.result = "returned"]]

\* lines 187-191 of _poll_company: the commit of the except branch is done:
\* the audit entry is "error", what the attempt wrote before the exception
\* is stored with it, and the statistics are returned
poll_failed(s, sw) ==
    /\ poll_logs' = [poll_logs EXCEPT ![sw.poll_log] =
           [@ EXCEPT !.status = "error", !.completed_at = sw.completed_at,
                     !.error_message = sw.error_message]]
    /\ \E flushed \in Flushes(s) : commit(s, flushed)
    /\ sweep' = [sweep EXCEPT ![s] = [IdleSweep EXCEPT !.result = "returned"]]

\* the except branch of _poll_company after a flush failed: the session's
\* transaction is rolled back and inactive, so the commit of line 187 raises
\* before it sends anything; the exception leaves _poll_company and the
\* audit entry stays "running"
session_broken(s, sw) ==
    /\ rollback(s)
    /\ UNCHANGED poll_logs
    /\ sweep' = [sweep EXCEPT ![s] = [IdleSweep EXCEPT !.result = "raised"]]

\* _poll_company, lines 120-143: the audit entry is added and committed and
\* fetch_jobs is called
BeginPoll(s, company_id) ==
    /\ sweep[s].pc = "idle"
    /\ Len(poll_logs) < MaxPollLogs
    /\ poll_logs' = Append(poll_logs,
           [company_id |-> company_id, status |-> "running",
            completed_at |-> NULL, jobs_found |-> 0, new_jobs |-> 0,
            updated_jobs |-> 0, error_message |-> None])
    /\ sweep' = [sweep EXCEPT ![s] =
           [IdleSweep EXCEPT !.pc = "fetch",
                             !.company = company_id,
                             !.poll_log = Len(poll_logs) + 1]]
    /\ fetched' = Append(fetched, <<>>)
    /\ UNCHANGED detached
    /\ UNCHANGED <<now, companies, jobs, user_alerts, notifications, session,
                   background, api, deliveries, crashes>>

\* lines 143-148: fetch_jobs returns the upstream list
FetchJobs(s) ==
    /\ sweep[s].pc = "fetch"
    /\ \E response \in Upstream(sweep[s].company) :
           /\ sweep' = [sweep EXCEPT ![s] =
                  next_record([@ EXCEPT !.gh_jobs = response,
                                        !.company_stats.jobs_found = Len(response)])]
           /\ fetched' = [fetched EXCEPT ![sweep[s].poll_log] = response]
    /\ UNCHANGED detached
    /\ UNCHANGED <<now, db, session, background, api, deliveries, crashes>>

\* fetch_jobs raises (HTTP status, timeout, malformed body)
FetchRaises(s) ==
    /\ sweep[s].pc = "fetch"
    /\ sweep' = [sweep EXCEPT ![s] = except_branch(@, "fetch_jobs")]
    /\ UNCHANGED detached
    /\ UNCHANGED <<now, db, session, background, api,
                   deliveries, crashes, fetched>>

\* the commit of the except branch is done
PollFailed(s) ==
    /\ sweep[s].pc = "failed"
    /\ poll_failed(s, sweep[s])
    /\ UNCHANGED detached
    /\ UNCHANGED <<now, background, api, deliveries, crashes, fetched>>

\* _process_job, lines 213-219: the stored row with the record's key, as the
\* select of the session ss finds it
existing_job_of(ss, company_id, gh_job) ==
    LET found == {j \in jobs_of(ss) : same_key(j, company_id, gh_job.id)}
    IN  IF found = {} THEN <<>> ELSE <<CHOOSE j \in found : TRUE>>

\* a variant of the branch that compares the raw payload instead of the
\* fingerprint; ThreeWayBranchExact does not hold with it
classify_by_payload(existing_job, gh_job) ==
    IF existing_job = <<>> THEN "new"
    ELSE IF existing_job[1].raw_data # gh_job.raw_data THEN "changed"
    ELSE "unchanged"

\* the three-way branch of _process_job, on the row the select loaded
classify(existing_job, gh_job) ==
    IF existing_job = <<>> THEN "new"
    ELSE IF existing_job[1].content_hash # content_hash(gh_job) THEN "changed"
    ELSE "unchanged"

\* lines 225-235: the Job object of a new posting
new_job(company_id, gh_job) ==
    [company_id |-> company_id, external_id |-> gh_job.id,
     title |-> gh_job.title, department |-> gh_job.department,
     location |-> gh_job.location, job_type |-> gh_job.job_type,
     external_url |-> gh_job.absolute_url, content_hash |-> content_hash(gh_job),
     raw_data |-> gh_job.raw_data]

\* the row the INSERT of a Job object makes: the primary key, is_active
\* from its default, and first_seen_at and last_seen_at from
\* server_default=func.now(), which the database evaluates
inserted_job(job, id, stamp) ==
    [id |-> id, first_seen_at |-> stamp, last_seen_at |-> stamp,
     is_active |-> TRUE] @@ job

\* lines 247-254: the attributes of a changed posting
updated_job(row, gh_job) ==
    [row EXCEPT !.title = gh_job.title, !.department = gh_job.department,
                !.location = gh_job.location, !.job_type = gh_job.job_type,
                !.external_url = gh_job.absolute_url,
                !.content_hash = content_hash(gh_job),
                !.raw_data = gh_job.raw_data, !.last_seen_at = now]

\* a variant that also resets first_seen_at; UnchangedLeavesRow does not
\* hold with it
seen_job_reset(row) == [row EXCEPT !.last_seen_at = now, !.first_seen_at = now]

\* line 264: the attribute of an unchanged posting
seen_job(row) == [row EXCEPT !.last_seen_at = now]

\* _process_job, lines 213-237: the select finds no row; the Job object is
\* made and added and the flush is awaited
ProcessNew(s) ==
    /\ sweep[s].pc = "select"
    /\ \E flushed \in Flushes(s) :
           LET sw == sweep[s]
               gh_job == Head(sw.gh_jobs)
               existing_job == existing_job_of(flushed, sw.company, gh_job)
           IN  /\ classify(existing_job, gh_job) = "new"
               /\ session' = [session EXCEPT ![s] = flushed]
               /\ sweep' = [sweep EXCEPT ![s] =
                      [sw EXCEPT !.pc = "flush",
                                 !.job = <<new_job(sw.company, gh_job)>>]]
    /\ UNCHANGED detached
    /\ UNCHANGED <<now, db, background, api, deliveries, crashes, fetched>>

\* _process_job, lines 237-241, and find_matching_alerts, line 32: the
\* INSERT of the new row is done and the select of the alerts is sent.  An
\* INSERT waits as long as another session holds an uncommitted row with
\* the same key
FlushJob(s) ==
    /\ sweep[s].pc = "flush"
    /\ LET sw == sweep[s]
           job == sw.job[1]
       IN  /\ ~locked_elsewhere(s, job.company_id, job.external_id)
           /\ \E stamp \in {now, session[s].began} :
                  LET row == inserted_job(job, next_id(jobs \cup pending_jobs), stamp)
                  IN  /\ flush_ok(row)
                      /\ session' = [session EXCEPT ![s] =
                             [@ EXCEPT !.jobs = @ \cup {row}]]
                      /\ sweep' = [sweep EXCEPT ![s] =
                             [sw EXCEPT !.pc = "match", !.job = <<row>>,
                                        !.job_result.is_new = TRUE]]
    /\ UNCHANGED detached
    /\ UNCHANGED <<now, db, background, api, deliveries, crashes, fetched>>

\* _process_job, lines 213-258, and find_matching_alerts, line 32: the
\* select finds a row with another fingerprint; its attributes are set in
\* memory and the select of the alerts is sent
ProcessChanged(s) ==
    /\ sweep[s].pc = "select"
    /\ \E flushed \in Flushes(s) :
           LET sw == sweep[s]
               gh_job == Head(sw.gh_jobs)
               existing_job == existing_job_of(flushed, sw.company, gh_job)
           IN  /\ classify(existing_job, gh_job) = "changed"
               /\ session' = [session EXCEPT ![s] =
                      [flushed EXCEPT !.dirty_job =
                          <<[loaded |-> existing_job[1],
                             object |-> updated_job(existing_job[1], gh_job)]>>]]
               /\ sweep' = [sweep EXCEPT ![s] =
                      [sw EXCEPT !.pc = "match",
                                 !.job = <<updated_job(existing_job[1], gh_job)>>,
                                 !.job_result.is_updated = TRUE]]
    /\ UNCHANGED detached
    /\ UNCHANGED <<now, db, background, api, deliveries, crashes, fetched>>

\* _process_job, lines 213-266: the select finds a row with the same
\* fingerprint; last_seen_at is set in memory and the record is done
ProcessUnchanged(s) ==
    /\ sweep[s].pc = "select"
    /\ \E flushed \in Flushes(s) :
           LET sw == sweep[s]
               gh_job == Head(sw.gh_jobs)
               existing_job == existing_job_of(flushed, sw.company, gh_job)
           IN  /\ classify(existing_job, gh_job) = "unchanged"
               /\ session' = [session EXCEPT ![s] =
                      [flushed EXCEPT !.dirty_job =
                          <<[loaded |-> existing_job[1],
                             object |-> seen_job(existing_job[1])]>>]]
               /\ sweep' = [sweep EXCEPT ![s] = job_done(sw)]
    /\ UNCHANGED detached
    /\ UNCHANGED <<now, db, background, api, deliveries, crashes, fetched>>

\* the INSERT of the new Job is refused: a column that is not nullable is
\* None, or a committed row has the key
insert_raises(s) ==
    /\ sweep[s].pc = "flush"
    /\ LET job == sweep[s].job[1]
           row == inserted_job(job, next_id(jobs \cup pending_jobs), now)
       IN  \/ ~not_null(row)
           \/ /\ ~locked_elsewhere(s, job.company_id, job.external_id)
              /\ ~uq_company_job(row)

\* what the session holds in memory is sent by the autoflush of the
\* statement the task awaits, and is refused
update_raises(s) ==
    /\ sweep[s].pc \in {"select", "match", "dedup", "stamp"}
    /\ can_flush(s)
    /\ flush_raises(session[s])

\* a flush is refused by the database, or finds no row to update
FlushRaises(s) ==
    /\ insert_raises(s) \/ update_raises(s)
    /\ session_broken(s, sweep[s])
    /\ UNCHANGED detached
    /\ UNCHANGED <<now, background, api, deliveries, crashes, fetched>>

(***************************************************************************)
(* JobMatcher.find_matching_alerts, called by _send_job_notifications      *)
(***************************************************************************)
\* a variant of the select without the is_active condition;
\* InactiveNeverSelected does not hold with it
select_all_alerts(ss) == orderings(user_alerts_of(ss))

\* lines 32-35: the list the select of the active alerts answers with
select_active_alerts(ss) ==
    orderings({u \in user_alerts_of(ss) : u.is_active})

\* lines 40-41: _job_matches_alert returned for the first alert of the list;
\* slug is the slug of the company row it read, if it read one
alert_checked(sw, slug) ==
    [sw EXCEPT
        !.alerts = Tail(@),
        !.matching_alerts =
            IF job_matches_alert(sw.job[1], slug,
                                 loaded_alert(sw, Head(sw.alerts)))
            THEN Append(@, Head(sw.alerts)) ELSE @]

\* the loop of _send_job_notifications moves to the next alert, whose dedup
\* select is sent; after the last alert _process_job returns
next_alert(sw) ==
    IF Tail(sw.matching_alerts) = <<>>
    THEN job_done(sw)
    ELSE [sw EXCEPT !.matching_alerts = Tail(@), !.pc = "dedup"]

\* _send_job_notifications, lines 284-293: the loop over the matching
\* alerts is entered and the first dedup select is sent; with no matching
\* alert the record is done
enter_notifications(sw) ==
    IF sw.matching_alerts = <<>> THEN job_done(sw) ELSE [sw EXCEPT !.pc = "dedup"]

\* find_matching_alerts, lines 39-44, up to its next await: an alert with
\* company_slugs has _job_matches_alert select the company (line 60); an
\* alert without is checked at once
RECURSIVE find_matching_alerts(_)
find_matching_alerts(sw) ==
    IF sw.alerts = <<>> THEN enter_notifications(sw)
    ELSE IF loaded_alert(sw, Head(sw.alerts)).company_slugs # <<>>
         THEN [sw EXCEPT !.pc = "company"]
         ELSE find_matching_alerts(alert_checked(sw, ""))

\* find_matching_alerts, lines 32-39: the select of the active alerts is
\* done, after the autoflush that sends the UPDATE of a changed Job
SelectAlerts(s) ==
    /\ sweep[s].pc = "match"
    /\ \E flushed \in Flushes(s) : \E alerts \in select_active_alerts(flushed) :
           /\ session' = [session EXCEPT ![s] = flushed]
           /\ sweep' = [sweep EXCEPT ![s] =
                  find_matching_alerts(
                      [@ EXCEPT !.alerts = [i \in DOMAIN alerts |-> alerts[i].id],
                                !.loaded = SeqToSet(alerts)])]
    /\ UNCHANGED detached
    /\ UNCHANGED <<now, db, background, api, deliveries, crashes, fetched>>

\* _job_matches_alert, lines 60-129: the select of the company is done and
\* the criteria of the alert are checked
MatchCompany(s) ==
    /\ sweep[s].pc = "company"
    /\ \E flushed \in Flushes(s) :
           /\ session' = [session EXCEPT ![s] = flushed]
           /\ sweep' = [sweep EXCEPT ![s] =
                  find_matching_alerts(
                      alert_checked(@, companies_of(flushed)[@.job[1].company_id].slug))]
    /\ UNCHANGED detached
    /\ UNCHANGED <<now, db, background, api, deliveries, crashes, fetched>>

(***************************************************************************)
(* JobPollingService._send_job_notifications                               *)
(***************************************************************************)
\* a variant of the dedup select that only counts rows with status "sent";
\* FailedSendRecorded does not hold with it
existing_sent_notification(ss, alert_id, job_id) ==
    {n \in notifications_of(ss) :
        n.alert_id = alert_id /\ n.job_id = job_id /\ n.status = "sent"}

\* a variant of the dedup select that only sees the rows the running
\* transaction wrote itself; NoAttemptAfterRecord does not hold with it
existing_pending_notification(ss, alert_id, job_id) ==
    {n \in ss.notifications : n.alert_id = alert_id /\ n.job_id = job_id}

\* lines 288-293: the ledger rows the dedup select returns
existing_notification(ss, alert_id, job_id) ==
    {n \in notifications_of(ss) : n.alert_id = alert_id /\ n.job_id = job_id}

delivery_key(alert_id, job) == <<alert_id, job.company_id, job.external_id>>

\* lines 288-299: a ledger row exists, or the alert has no webhook: no send
NotifySkip(s) ==
    /\ sweep[s].pc = "dedup"
    /\ \E flushed \in Flushes(s) :
           LET sw == sweep[s]
               alert == loaded_alert(sw, Head(sw.matching_alerts))
               existing == existing_notification(flushed, alert.id, sw.job[1].id)
           IN  /\ \/ Cardinality(existing) = 1
                  \/ existing = {} /\ alert.discord_webhook_url = None
               /\ session' = [session EXCEPT ![s] = flushed]
               /\ sweep' = [sweep EXCEPT ![s] = next_alert(sw)]
    /\ UNCHANGED detached
    /\ UNCHANGED <<now, db, background, api, deliveries, crashes, fetched>>

\* line 295: scalar_one_or_none finds more than one ledger row and raises
NotifyRaises(s) ==
    /\ sweep[s].pc = "dedup"
    /\ \E flushed \in Flushes(s) :
           LET sw == sweep[s]
           IN  /\ Cardinality(existing_notification(
                      flushed, Head(sw.matching_alerts), sw.job[1].id)) > 1
               /\ session' = [session EXCEPT ![s] = flushed]
               /\ sweep' = [sweep EXCEPT ![s] =
                      except_branch(sw, "MultipleResultsFound")]
    /\ UNCHANGED detached
    /\ UNCHANGED <<now, db, background, api, deliveries, crashes, fetched>>

\* lines 288-305: no ledger row and a webhook: the message is posted
NotifySend(s) ==
    /\ sweep[s].pc = "dedup"
    /\ \E flushed \in Flushes(s) :
           LET sw == sweep[s]
               alert == loaded_alert(sw, Head(sw.matching_alerts))
           IN  /\ existing_notification(flushed, alert.id, sw.job[1].id) = {}
               /\ alert.discord_webhook_url # None
               /\ session' = [session EXCEPT ![s] = flushed]
               /\ sweep' = [sweep EXCEPT ![s] = [sw EXCEPT !.pc = "send"]]
    /\ UNCHANGED detached
    /\ UNCHANGED <<now, db, background, api, deliveries, crashes, fetched>>

\* lines 300-321: send_job_notification returned; the attempt is added to
\* the session and, after a delivery, last_notified_at is set in memory
NotifyRecord(s) ==
    /\ sweep[s].pc = "send"
    /\ LET sw == sweep[s]
           alert_id == Head(sw.matching_alerts)
       IN  \E success \in BOOLEAN :
               /\ session' = [session EXCEPT ![s] =
                      [@ EXCEPT
                          !.added =
                              <<[alert_id |-> alert_id, job_id |-> sw.job[1].id,
                                 notification_type |-> "discord",
                                 status |-> IF success THEN "sent" ELSE "failed"]>>,
                          !.dirty_alert =
                              IF success
                              THEN <<[id |-> alert_id, last_notified_at |-> now]>>
                              ELSE <<>>]]
               /\ sweep' = [sweep EXCEPT ![s] = next_alert(
                      [sw EXCEPT
                          !.job_result.notifications_sent =
                              IF success THEN @ + 1 ELSE @,
                          !.job_result.notifications_failed =
                              IF success THEN @ ELSE @ + 1])]
               /\ deliveries' =
                      IF success
                      THEN [deliveries EXCEPT
                               ![delivery_key(alert_id, sw.job[1])] = @ + 1]
                      ELSE deliveries
    /\ UNCHANGED detached
    /\ UNCHANGED <<now, db, background, api, crashes, fetched>>

\* _poll_company, lines 159-176: the UPDATE of last_polled_at is done, after
\* the autoflush of what the last record left in memory; the audit entry is
\* changed in memory and the commit is awaited
StampPolled(s) ==
    /\ sweep[s].pc = "stamp"
    /\ ~company_locked_elsewhere(s, sweep[s].company)
    /\ \E flushed \in Flushes(s) :
           session' = [session EXCEPT ![s] =
               [flushed EXCEPT !.last_polled =
                   {<<sweep[s].company, sweep[s].last_polled_at>>}]]
    /\ sweep' = [sweep EXCEPT ![s] =
           [@ EXCEPT !.pc = "commit", !.completed_at = now]]
    /\ UNCHANGED detached
    /\ UNCHANGED <<now, db, background, api, deliveries, crashes, fetched>>

\* _poll_company, lines 176-191: the commit is done: the audit entry is
\* "success" and the statistics are returned
FinishPoll(s) ==
    /\ sweep[s].pc = "commit"
    /\ poll_logs' = [poll_logs EXCEPT ![sweep[s].poll_log] =
           [@ EXCEPT !.status = "success",
                     !.completed_at = sweep[s].completed_at,
                     !.jobs_found = sweep[s].company_stats.jobs_found,
                     !.new_jobs = sweep[s].company_stats.new_jobs,
                     !.updated_jobs = sweep[s].company_stats.updated_jobs]]
    /\ commit(s, session[s])
    /\ sweep' = [sweep EXCEPT ![s] = [IdleSweep EXCEPT !.result = "returned"]]
    /\ UNCHANGED detached
    /\ UNCHANGED <<now, background, api, deliveries, crashes, fetched>>

(***************************************************************************)
(* The alerts API (api/routes.py): POST /alerts with its background task   *)
(* send_initial_notification, PUT /alerts/{alert_id} and DELETE            *)
(* /alerts/{alert_id}.  Each request and each background task has a        *)
(* session of its own.  api.requests is the number of requests the clients *)
(* of the API still make; api.alert_id is the last value of the sequence   *)
(* that numbers the rows of user_alerts.                                   *)
(***************************************************************************)
\* a request or background task in flight: pc names the await it is
\* suspended at.  Of its locals it has the ones the rest of the handler
\* reads: began is the time its transaction began, loaded the UserAlert
\* object its select loaded, jobs are the
\* loaded Job objects the loop of send_initial_alert_notification has not
\* checked yet, matching_jobs the ones it accepted; body and is_valid
\* belong to PUT /alerts
Task(kind, alert_id, pc) ==
    [kind |-> kind, alert |-> alert_id, pc |-> pc, began |-> NULL,
     loaded |-> <<>>, jobs |-> <<>>, matching_jobs |-> <<>>,
     last_notified_at |-> NULL, body |-> <<>>, is_valid |-> TRUE]

\* the tasks of a kind that handle the alert a and are suspended at pc
tasks(kind, a, pc) ==
    {t \in background : t.kind = kind /\ t.alert = a /\ t.pc = pc}

\* the task is over
done(t) == background' = background \ {t}

\* the task goes on
becomes(t, u) == background' = (background \ {t}) \cup {u}

\* a client makes one of its requests
requested == api.requests > 0
request_made == [api EXCEPT !.requests = @ - 1]

\* create_alert, lines 259-286: the row is added and committed and the
\* refresh of the object is awaited
create_alert(request) ==
    /\ requested
    /\ api.alert_id < MaxAlerts
    /\ LET alert == db_alert(api.alert_id + 1, request, now)
       IN  /\ user_alerts' = user_alerts \cup {alert}
           /\ background' = background \cup {Task("create", alert.id, "refresh")}
           /\ api' = [request_made EXCEPT !.alert_id = alert.id]
    /\ UNCHANGED detached
    /\ UNCHANGED <<now, companies, jobs, notifications, poll_logs, session, sweep,
                   deliveries, crashes, fetched>>

CreateAlert == \E request \in AlertRequests : create_alert(request)

\* create_alert, lines 286-295: the refresh has loaded the row as it is
\* stored now; with a webhook the initial notification is scheduled, which
\* starts with the select of the alert (lines 515-524).  The refresh of a
\* row that is deleted raises; the except branch answers 500
RefreshAlert(a) ==
    /\ \E t \in tasks("create", a, "refresh") :
           IF alert_stored(a) /\ alert_row(a).discord_webhook_url # None
           THEN becomes(t, Task("initial", a, "alert"))
           ELSE done(t)
    /\ UNCHANGED detached
    /\ UNCHANGED <<now, db, session, sweep, api, deliveries, crashes, fetched>>

\* create_alert, lines 286 and 297-303: the refresh raises (the connection
\* to the database is lost): the request is answered 500, the committed row
\* stays and no initial notification is scheduled
RefreshRaises(a) ==
    /\ \E t \in tasks("create", a, "refresh") : done(t)
    /\ UNCHANGED detached
    /\ UNCHANGED <<now, db, session, sweep, api, deliveries, crashes, fetched>>

\* send_initial_notification, lines 515-529, and
\* send_initial_alert_notification, lines 339-347: the select of the alert
\* is done; without a row (line 526) the task ends, as it does for an
\* alert without company_slugs (line 388); for any other the select of its
\* companies is sent
InitialLoadAlert(a) ==
    /\ \E t \in tasks("initial", a, "alert") :
           IF alert_stored(a) /\ alert_row(a).company_slugs # <<>>
           THEN becomes(t, [t EXCEPT !.pc = "companies", !.began = now,
                                     !.loaded = <<alert_row(a)>>])
           ELSE done(t)
    /\ UNCHANGED detached
    /\ UNCHANGED <<now, db, session, sweep, api, deliveries, crashes, fetched>>

\* lines 343-355: the select of the companies is done and the select of
\* their active jobs is sent
InitialLoadCompanies(a) ==
    /\ \E t \in tasks("initial", a, "companies") :
           /\ becomes(t, [t EXCEPT !.pc = "jobs"])
    /\ UNCHANGED detached
    /\ UNCHANGED <<now, db, session, sweep, api, deliveries, crashes, fetched>>

\* lines 341-355: the committed active jobs of the alert's companies
initial_jobs(alert) ==
    {j \in jobs :
        /\ InSeq(companies[j.company_id].slug, alert.company_slugs)
        /\ j.is_active}

\* lines 359-370 up to the next await: the next job has _job_matches_alert
\* select its company; after the last job the message is posted, if a job
\* matched and the alert has a webhook, else the task ends (line 388)
initial_loop(t, u) ==
    IF u.jobs # <<>> THEN becomes(t, [u EXCEPT !.pc = "company"])
    ELSE IF u.matching_jobs # <<>>
                /\ u.loaded[1].discord_webhook_url # None
         THEN becomes(t, [u EXCEPT !.pc = "send"])
         ELSE done(t)

\* lines 349-360: the select of the jobs is done
InitialLoadJobs(a) ==
    /\ \E t \in tasks("initial", a, "jobs") :
           /\ \E job_list \in orderings(initial_jobs(t.loaded[1])) :
                  initial_loop(t, [t EXCEPT !.jobs = job_list])
    /\ UNCHANGED detached
    /\ UNCHANGED <<now, db, session, sweep, api, deliveries, crashes, fetched>>

\* lines 359-361 and _job_matches_alert, lines 60-129: the select of the
\* company of the next job is done and the criteria are checked
InitialMatchJob(a) ==
    /\ \E t \in tasks("initial", a, "company") :
           /\ LET job == Head(t.jobs)
              IN  initial_loop(t,
                      [t EXCEPT
                          !.jobs = Tail(@),
                          !.matching_jobs =
                              IF job_matches_alert(job, companies[job.company_id].slug,
                                                   t.loaded[1])
                              THEN Append(@, job) ELSE @])
    /\ UNCHANGED detached
    /\ UNCHANGED <<now, db, session, sweep, api, deliveries, crashes, fetched>>

\* lines 365-384 with a delivery: one message for all matching jobs; one
\* Notification per job is added, last_notified_at is set in memory and the
\* commit is awaited
InitialSent(a) ==
    /\ \E t \in tasks("initial", a, "send") :
           /\ becomes(t, [t EXCEPT !.pc = "commit", !.last_notified_at = now])
           /\ deliveries' = [k \in DeliveryKeys |->
                  IF \E i \in 1..Len(t.matching_jobs) :
                         k = delivery_key(t.alert, t.matching_jobs[i])
                  THEN deliveries[k] + 1 ELSE deliveries[k]]
    /\ UNCHANGED detached
    /\ UNCHANGED <<now, db, session, sweep, api, crashes, fetched>>

\* lines 365-386 with a failed send: nothing is written
InitialFailed(a) ==
    /\ \E t \in tasks("initial", a, "send") :
           /\ done(t)
    /\ UNCHANGED detached
    /\ UNCHANGED <<now, db, session, sweep, api, deliveries, crashes, fetched>>

\* one "sent" ledger row per job, numbered after the rows that exist
RECURSIVE initial_rows(_, _, _)
initial_rows(alert_id, job_list, rows) ==
    IF job_list = <<>> THEN {}
    ELSE LET row == [id |-> next_id(rows), alert_id |-> alert_id,
                     job_id |-> Head(job_list).id,
                     notification_type |-> "discord", status |-> "sent"]
         IN  {row} \cup initial_rows(alert_id, Tail(job_list), rows \cup {row})

\* line 384: the commit is done: the ledger rows and the UPDATE of the
\* alert, which waits for a lock on the row, are stored.  Without a row of
\* the alert the UPDATE raises, nothing is stored and the except branch
\* (lines 390-392) ends the task
InitialCommit(a) ==
    /\ \E t \in tasks("initial", a, "commit") :
           /\ ~alert_locked(a)
           /\ IF alert_stored(a)
              THEN /\ notifications' = notifications \cup
                          initial_rows(a, t.matching_jobs,
                                       notifications \cup pending_notifications)
                   /\ \E stamp \in {now, t.began} :
                          user_alerts' = (user_alerts \ {alert_row(a)}) \cup
                              {[alert_row(a) EXCEPT
                                   !.last_notified_at = t.last_notified_at,
                                   !.updated_at = stamp]}
              ELSE UNCHANGED <<notifications, user_alerts>>
           /\ done(t)
    /\ UNCHANGED detached
    /\ UNCHANGED <<now, companies, jobs, poll_logs, session, sweep, api, deliveries,
                   crashes, fetched>>

\* the bodies PUT /alerts is called with (UserAlertUpdate: every field is
\* optional, and a field that is not set is left out of the body): the
\* alert is switched off or on, is given another webhook or none, or other
\* title keywords
UpdateRequests ==
    {[is_active |-> is_active] : is_active \in BOOLEAN}
        \cup {[discord_webhook_url |-> url] : url \in {"hook/b", None}}
        \cup {[title_keywords |-> <<"staff">>]}

\* update_alert, lines 345-356: the select of the alert is done (a request
\* for an alert without row is answered 404); with a webhook in the body
\* the test message is posted, else the fields are set and the commit is
\* awaited
UpdateAlert(a, body) ==
    /\ requested
    /\ alert_stored(a)
    /\ background' = background \cup
           {[Task("update", a,
                  IF "discord_webhook_url" \in DOMAIN body
                         /\ body.discord_webhook_url # None
                  THEN "test" ELSE "commit")
                EXCEPT !.began = now, !.loaded = <<alert_row(a)>>,
                       !.body = <<body>>]}
    /\ api' = request_made
    /\ UNCHANGED detached
    /\ UNCHANGED <<now, db, session, sweep, deliveries, crashes, fetched>>

\* update_alert, lines 356-357: test_webhook has returned and the close of
\* its client is awaited
UpdateTested(a) ==
    /\ \E t \in tasks("update", a, "test") : \E is_valid \in BOOLEAN :
           becomes(t, [t EXCEPT !.pc = "close", !.is_valid = is_valid])
    /\ UNCHANGED detached
    /\ UNCHANGED <<now, db, session, sweep, api, deliveries, crashes, fetched>>

\* update_alert, lines 357-370: the client is closed; after a failed test
\* the request is answered 400, else the fields are set and the commit is
\* awaited
UpdateClosed(a) ==
    /\ \E t \in tasks("update", a, "close") :
           IF t.is_valid THEN becomes(t, [t EXCEPT !.pc = "commit"]) ELSE done(t)
    /\ UNCHANGED detached
    /\ UNCHANGED <<now, db, session, sweep, api, deliveries, crashes, fetched>>

\* the fields of the body whose value is not the one of the loaded object:
\* the columns the UPDATE of the commit sets
changed_fields(t) == {f \in DOMAIN t.body[1] : t.body[1][f] # t.loaded[1][f]}

\* the row the UPDATE of update_alert makes of the row as it is stored now
updated_alert(row, t, stamp) ==
    [c \in DOMAIN row |->
        IF c \in changed_fields(t) THEN t.body[1][c]
        ELSE IF c = "updated_at" THEN stamp
        ELSE row[c]]

\* update_alert, lines 370-371: the commit is done and the refresh is
\* awaited.  Without a changed field nothing is sent.  The UPDATE waits for
\* a lock on the row; without a row it raises and the request is answered
\* 500
UpdateCommit(a) ==
    /\ \E t \in tasks("update", a, "commit") :
           IF changed_fields(t) = {}
           THEN /\ becomes(t, Task("update", a, "refresh"))
                /\ UNCHANGED user_alerts
           ELSE /\ ~alert_locked(a)
                /\ IF alert_stored(a)
                   THEN /\ \E stamp \in {now, t.began} :
                               user_alerts' = (user_alerts \ {alert_row(a)})
                                   \cup {updated_alert(alert_row(a), t, stamp)}
                        /\ becomes(t, Task("update", a, "refresh"))
                   ELSE /\ UNCHANGED user_alerts
                        /\ done(t)
    /\ UNCHANGED detached
    /\ UNCHANGED <<now, companies, jobs, notifications, poll_logs, session, sweep,
                   api, deliveries, crashes, fetched>>

\* update_alert, lines 371-373: the refresh is done, or raises, and the
\* request is answered
UpdateRefreshed(a) ==
    /\ \E t \in tasks("update", a, "refresh") : done(t)
    /\ UNCHANGED detached
    /\ UNCHANGED <<now, db, session, sweep, api, deliveries, crashes, fetched>>

\* delete_alert, lines 382-391: the select of the alert is done (a request
\* for an alert without row is answered 404), the object is marked deleted
\* and the commit is awaited
DeleteAlert(a) ==
    /\ requested
    /\ alert_stored(a)
    /\ background' = background \cup {Task("delete", a, "commit")}
    /\ api' = request_made
    /\ UNCHANGED detached
    /\ UNCHANGED <<now, db, session, sweep, deliveries, crashes, fetched>>

\* delete_alert, lines 391-393: the commit is done.  The flush loads the
\* ledger rows of the alert (the relationship notifications of UserAlert,
\* which has no delete cascade) to take them off the alert: alert_id of a
\* ledger row cannot be NULL, so with a ledger row the flush raises and the
\* alert stays.  Without one the row of the alert is deleted; the DELETE
\* waits for the locks on the row
DeleteCommit(a) ==
    /\ \E t \in tasks("delete", a, "commit") :
           /\ ~alert_locked(a)
           /\ ~alert_referenced(a)
           /\ user_alerts' =
                  IF \E n \in notifications : n.alert_id = a
                  THEN user_alerts
                  ELSE {u \in user_alerts : u.id # a}
           /\ done(t)
    /\ UNCHANGED detached
    /\ UNCHANGED <<now, companies, jobs, notifications, poll_logs, session, sweep,
                   api, deliveries, crashes, fetched>>

(***************************************************************************)
(* The environment: time passes; the process stops and is started again    *)
(***************************************************************************)
Tick ==
    /\ now < MaxTime
    /\ now' = now + 1
    /\ UNCHANGED detached
    /\ UNCHANGED <<db, session, sweep, background, api, deliveries, crashes,
                   fetched>>

\* the process stops: the open transactions are rolled back by the
\* database, the tasks and their locals are gone
Crash ==
    /\ crashes < MaxCrashes
    /\ \/ \E s \in Sweeps : sweep[s].pc # "idle"
       \/ background # {}
    /\ crashes' = crashes + 1
    /\ session' = [s \in Sweeps |-> EmptySession]
    /\ sweep' = [s \in Sweeps |-> IdleSweep]
    /\ background' = {}
    /\ UNCHANGED detached
    /\ UNCHANGED <<now, db, api, deliveries, fetched>>

\* the steps of _poll_company by the task s
PollCompany(s) ==
    \/ \E company_id \in DOMAIN InitCompanies : BeginPoll(s, company_id)
    \/ FetchJobs(s) \/ FetchRaises(s) \/ PollFailed(s)
    \/ ProcessNew(s) \/ FlushJob(s) \/ ProcessChanged(s) \/ ProcessUnchanged(s)
    \/ FlushRaises(s)
    \/ SelectAlerts(s) \/ MatchCompany(s)
    \/ NotifySkip(s) \/ NotifySend(s) \/ NotifyRecord(s)
    \/ StampPolled(s) \/ FinishPoll(s)

\* the steps of create_alert after its commit and of
\* send_initial_notification for the alert a
InitialNotification(a) ==
    \/ RefreshAlert(a) \/ RefreshRaises(a)
    \/ InitialLoadAlert(a) \/ InitialLoadCompanies(a) \/ InitialLoadJobs(a)
    \/ InitialMatchJob(a) \/ InitialSent(a) \/ InitialFailed(a)
    \/ InitialCommit(a)

\* the steps of update_alert and delete_alert for the alert a
ChangeAlert(a) ==
    \/ \E body \in UpdateRequests : UpdateAlert(a, body)
    \/ UpdateTested(a) \/ UpdateClosed(a) \/ UpdateCommit(a) \/ UpdateRefreshed(a)
    \/ DeleteAlert(a) \/ DeleteCommit(a)

\* the service with one poller task, clients that create alerts, the clock
\* and the process stopping
Next ==
    \/ \E s \in {"scheduler"} :
           SelectRaises(s) \/ CloseSession(s) \/ PollCompany(s) \/ NotifyRaises(s)
    \/ CreateAlert
    \/ \E a \in 1..MaxAlerts : InitialNotification(a)
    \/ Tick
    \/ Crash

Spec == Init /\ [][Next]_vars

\* the same service with clients that change and delete alerts; no second
\* ledger row of a pair can be written here, so line 295 does not raise
NextUpdate ==
    \/ \E s \in {"scheduler"} :
           SelectRaises(s) \/ CloseSession(s) \/ PollCompany(s)
    \/ \E a \in 1..MaxAlerts : ChangeAlert(a)
    \/ Tick
    \/ Crash

SpecUpdate == Init /\ [][NextUpdate]_vars

\* the scheduler loop and a POST /poll-now request at the same time, with
\* a companies table in which airbnb is active or switched off
ManualInit ==
    /\ \E is_active \in BOOLEAN :
           Started([InitCompanies EXCEPT ![2].is_active = is_active], MaxRequests)
    /\ dispatch = NoDispatch /\ scheduler = NoScheduler /\ call = NoCall

NextManual ==
    \E s \in Sweeps : SelectRaises(s) \/ CloseSession(s) \/ PollCompany(s)

SpecManual == ManualInit /\ [][NextManual]_vars

(***************************************************************************)
(* POST /alerts and the initial notification on their own, for alerts with *)
(* any combination of criteria and a database that already holds jobs.     *)
(***************************************************************************)
\* the request bodies: with and without companies, keywords and locations
InitialRequests ==
    {[name |-> "alert", company_slugs |-> slugs, title_keywords |-> keywords,
      title_exclude_keywords |-> <<>>, departments |-> <<>>,
      locations |-> locations, job_types |-> <<>>, include_remote |-> TRUE,
      discord_webhook_url |-> "hook/a"] :
        slugs \in {<<>>, <<"stripe">>},
        keywords \in {<<>>, <<"engineer">>},
        locations \in {<<>>, <<"Boston">>}}

\* rows of the jobs table that earlier polls stored
StoredJobs ==
    {inserted_job(new_job(1, J1), 1, 0),
     inserted_job(new_job(1, GreenhouseJob("103", "Analyst", "u/103", "r4")), 2, 0),
     inserted_job(new_job(2, K1), 3, 0)}

InitialInit ==
    /\ now = 0
    /\ companies = InitCompanies
    /\ jobs \in SUBSET StoredJobs
    /\ user_alerts = {}
    /\ notifications = {}
    /\ poll_logs = <<>>
    /\ session = [s \in Sweeps |-> EmptySession]
    /\ sweep = [s \in Sweeps |-> IdleSweep]
    /\ background = {}
    /\ api = [alert_id |-> 0, requests |-> MaxAlerts]
    /\ deliveries = [k \in DeliveryKeys |-> 0]
    /\ crashes = 0
    /\ fetched = <<>>
    /\ dispatch = NoDispatch /\ scheduler = NoScheduler /\ call = NoCall

InitialNext ==
    \/ \E request \in InitialRequests : create_alert(request)
    \/ \E a \in 1..MaxAlerts : InitialNotification(a)

SpecInitial == InitialInit /\ [][InitialNext]_vars

(***************************************************************************)
(* DiscordNotifier (discord.py) and its two callers, on their own: a batch *)
(* of jobs that match one alert is handed over by the poll, one job at a   *)
(* time, by the initial notification, all at once, or in one call of       *)
(* send_job_notification.  The pictographs that start the texts of the     *)
(* source, and the timestamp of the embed, are left out.                   *)
(***************************************************************************)
MaxBatch == 12

\* str.join
RECURSIVE join(_, _)
join(sep, parts) ==
    IF parts = <<>> THEN ""
    ELSE IF Len(parts) = 1 THEN parts[1]
    ELSE parts[1] \o sep \o join(sep, Tail(parts))

\* the truth value Python gives an Optional[str]
truthy(v) == v # None /\ v # ""

\* DiscordNotifier._create_job_field
create_job_field(job) ==
    [name |-> "**" \o job.title \o "**",
     value |-> join("\n",
         <<job.company.name>>
         \o (IF truthy(job.department) THEN <<job.department>> ELSE <<>>)
         \o (IF truthy(job.location) THEN <<job.location>> ELSE <<>>)
         \o (IF truthy(job.job_type) THEN <<job.job_type>> ELSE <<>>)
         \o <<"[**Apply Here**](" \o job.external_url \o ")">>),
     inline |-> TRUE]

\* one line of the alert summary: the first items and a count of the rest
listed(label, items, limit) ==
    label \o join(", ", SubSeq(items, 1, IF Len(items) < limit THEN Len(items) ELSE limit))
          \o (IF Len(items) > limit
              THEN " (+" \o ToString(Len(items) - limit) \o " more)" ELSE "")

\* DiscordNotifier._create_alert_summary
create_alert_summary(alert) ==
    join("\n",
        (IF alert.company_slugs # <<>>
         THEN IF Len(alert.company_slugs) <= 3
              THEN <<"**Companies:** " \o join(", ", alert.company_slugs)>>
              ELSE <<"**Companies:** " \o ToString(Len(alert.company_slugs))
                         \o " selected">>
         ELSE <<>>)
        \o (IF alert.title_keywords # <<>>
            THEN <<listed("**Keywords:** ", alert.title_keywords, 5)>> ELSE <<>>)
        \o (IF alert.title_exclude_keywords # <<>>
            THEN <<listed("**Excluding:** ", alert.title_exclude_keywords, 3)>>
            ELSE <<>>)
        \o (IF alert.departments # <<>>
            THEN <<listed("**Departments:** ", alert.departments, 3)>> ELSE <<>>)
        \o (IF alert.locations # <<>>
            THEN <<listed("**Locations:** ", alert.locations, 3)>> ELSE <<>>)
        \o (IF alert.job_types # <<>>
            THEN <<"**Types:** " \o join(", ", alert.job_types)>> ELSE <<>>)
        \o <<"**Remote Jobs:** " \o (IF alert.include_remote THEN "Yes" ELSE "No")>>)

\* a variant of the embed that lists every job of the batch;
\* EmbedShowsFirstTen does not hold with it
create_embed_unbounded(job_list, alert, is_initial) ==
    [title |-> alert.name, description |-> "",
     fields |-> [i \in 1..Len(job_list) |-> create_job_field(job_list[i])]
                \o <<[name |-> "Alert Criteria",
                      value |-> create_alert_summary(alert), inline |-> FALSE]>>]

\* DiscordNotifier._create_embed
create_embed(job_list, alert, is_initial) ==
    [title |-> (IF is_initial THEN "Initial Job Alert: " ELSE "New Job Alert: ")
                   \o alert.name,
     description |->
         IF is_initial
         THEN "Found **" \o ToString(Len(job_list))
                  \o "** existing jobs matching your criteria!"
         ELSE IF Len(job_list) = 1
              THEN "A new job was posted that matches your criteria!"
              ELSE "**" \o ToString(Len(job_list))
                       \o "** new jobs were posted that match your criteria!",
     fields |->
         LET jobs_to_show == SubSeq(job_list, 1, IF Len(job_list) < 10 THEN Len(job_list) ELSE 10)
         IN  [i \in 1..Len(jobs_to_show) |-> create_job_field(jobs_to_show[i])]
             \o (IF Len(job_list) > 10
                 THEN <<[name |-> "Additional Jobs",
                         value |-> "... and " \o ToString(Len(job_list) - 10)
                             \o " more jobs! Check your alert dashboard for the complete list.",
                         inline |-> FALSE]>>
                 ELSE <<>>)
             \o <<[name |-> "Alert Criteria",
                   value |-> create_alert_summary(alert), inline |-> FALSE]>>]

\* DiscordNotifier.send_job_notification: the embed is built and posted to
\* the webhook
send_job_notification(d, job_list, is_initial) ==
    [d EXCEPT
        !.calls = Append(@, [jobs |-> job_list, is_initial |-> is_initial]),
        !.outbox = Append(@, [webhook_url |-> d.alert.discord_webhook_url,
                              username |-> "RushJob",
                              embeds |-> <<create_embed(job_list, d.alert, is_initial)>>])]

\* the alerts a batch is sent for
DispatchAlerts ==
    {db_alert(1, [name |-> "stripe engineers", company_slugs |-> <<"stripe">>,
                  title_keywords |-> <<"engineer">>,
                  title_exclude_keywords |-> <<>>, departments |-> <<>>,
                  locations |-> <<>>, job_types |-> <<>>,
                  include_remote |-> TRUE, discord_webhook_url |-> "hook/a"], 0),
     db_alert(2, [name |-> "anything in seattle", company_slugs |-> <<>>,
                  title_keywords |-> <<>>, title_exclude_keywords |-> <<>>,
                  departments |-> <<>>, locations |-> <<"Seattle">>,
                  job_types |-> <<>>, include_remote |-> FALSE,
                  discord_webhook_url |-> "hook/b"], 0)}

\* the i-th job of a batch, with its company loaded
DispatchJob(i) ==
    [company |-> [name |-> "Stripe"]] @@
    inserted_job(
        new_job(1, GreenhouseJob(ToString(100 + i), "Engineer " \o ToString(i),
                                 "u/" \o ToString(100 + i), "r")), i, 0)

DispatchInit ==
    /\ ServiceInit
    /\ scheduler = NoScheduler /\ call = NoCall
    /\ \E n \in 0..MaxBatch : \E alert \in DispatchAlerts :
           dispatch = [NoDispatch EXCEPT
               !.alert = alert,
               !.jobs = [i \in 1..n |-> DispatchJob(i)],
               !.pending = [i \in 1..n |-> DispatchJob(i)]]

\* _poll_company and _send_job_notifications, lines 146-156 and 298-305: the
\* next new job of the poll is sent to the alert in a message of its own;
\* nothing is sent to an alert without a webhook (line 299)
PollNotifies ==
    /\ dispatch.pc \in {"idle", "poll"}
    /\ dispatch.pending # <<>>
    /\ dispatch' =
           [(IF truthy(dispatch.alert.discord_webhook_url)
             THEN send_job_notification(dispatch, <<Head(dispatch.pending)>>, FALSE)
             ELSE dispatch)
               EXCEPT !.pending = Tail(@),
                      !.pc = IF Tail(dispatch.pending) = <<>>
                             THEN "polled" ELSE "poll"]
    /\ UNCHANGED <<service, scheduler, call>>

\* send_initial_alert_notification, lines 342 and 363-370: for an alert
\* with company_slugs and a webhook, all matching jobs are sent in one
\* message; for any other alert, or without a job, nothing is posted
InitialNotifies ==
    /\ dispatch.pc = "idle"
    /\ dispatch.alert.company_slugs # <<>>
    /\ dispatch.jobs # <<>>
    /\ truthy(dispatch.alert.discord_webhook_url)
    /\ dispatch' = [send_job_notification(dispatch, dispatch.jobs, TRUE)
                       EXCEPT !.pc = "initial", !.pending = <<>>]
    /\ UNCHANGED <<service, scheduler, call>>

\* send_job_notification called with the whole batch and is_initial=False
BatchNotifies ==
    /\ dispatch.pc = "idle"
    /\ dispatch' = [send_job_notification(dispatch, dispatch.jobs, FALSE)
                       EXCEPT !.pc = "batch", !.pending = <<>>]
    /\ UNCHANGED <<service, scheduler, call>>

\* DiscordNotifier.test_webhook, lines 208-238: the test message is posted
\* to the webhook
TestWebhook ==
    /\ dispatch.pc = "idle"
    /\ dispatch' =
           [dispatch EXCEPT
               !.pc = "tested",
               !.tests = Append(@,
                   [webhook_url |-> dispatch.alert.discord_webhook_url,
                    content |-> "RushJob webhook test successful! "
                        \o "Your job alerts are now configured.",
                    username |-> "RushJob",
                    embeds |-> <<[title |-> "Webhook Test",
                                  description |->
                                      "This is a test message to verify your "
                                      \o "Discord webhook is working correctly."]>>])]
    /\ UNCHANGED <<service, scheduler, call>>

DispatchNext == PollNotifies \/ InitialNotifies \/ BatchNotifies \/ TestWebhook

SpecDispatch == DispatchInit /\ [][DispatchNext]_vars

(***************************************************************************)
(* PollingScheduler (poller.py, lines 409-451) and the lifespan of the     *)
(* application (main.py, lines 43-61), on their own.  A sweep is the call  *)
(* of poll_all_companies by the loop, which ends with the TypeError of     *)
(* _get_companies_to_poll (line 103) on every call.                        *)
(***************************************************************************)
MaxSweeps == 9

SchedulerInit ==
    /\ ServiceInit
    /\ dispatch = NoDispatch /\ call = NoCall
    /\ scheduler = NoScheduler

\* the counters stop at MaxSweeps; the loop does not
counted(n) == IF n < MaxSweeps THEN n + 1 ELSE n

\* lifespan, lines 43-51: the scheduler is built and start_polling is made a
\* task, which has not run yet
CreateTask ==
    /\ scheduler.app = "startup"
    /\ scheduler' = [scheduler EXCEPT !.app = "serving", !.pc = "created"]
    /\ UNCHANGED <<service, dispatch, call>>

\* start_polling, lines 423-424: the task runs and sets the flag
StartPolling ==
    /\ scheduler.pc = "created"
    /\ scheduler' = [scheduler EXCEPT !.is_running = TRUE, !.pc = "check"]
    /\ UNCHANGED <<service, dispatch, call>>

\* lines 426-428: the flag is set and poll_all_companies is called
LoopSweeps ==
    /\ scheduler.pc = "check"
    /\ scheduler.is_running
    /\ scheduler' = [scheduler EXCEPT !.pc = "sweep", !.sweeps = counted(@)]
    /\ UNCHANGED <<service, dispatch, call>>

\* line 426: the flag is cleared and start_polling returns
LoopExits ==
    /\ scheduler.pc = "check"
    /\ ~scheduler.is_running
    /\ scheduler' = [scheduler EXCEPT !.pc = "exited"]
    /\ UNCHANGED <<service, dispatch, call>>

\* a variant of the loop without the except branch: the exception of the
\* sweep ends start_polling; LoopSurvivesSweepErrors does not hold with it
SweepRaisesUncaught ==
    /\ scheduler.pc = "sweep"
    /\ scheduler' = [scheduler EXCEPT !.pc = "exited", !.errors = counted(@)]
    /\ UNCHANGED <<service, dispatch, call>>

\* lines 433-436: the sweep raised an Exception; the loop logs it and
\* sleeps for 60 seconds
SweepRaises ==
    /\ scheduler.pc = "sweep"
    /\ scheduler' = [scheduler EXCEPT !.pc = "cooldown", !.errors = counted(@)]
    /\ UNCHANGED <<service, dispatch, call>>

\* asyncio.sleep of line 436 is over
SleepEnds ==
    /\ scheduler.pc = "cooldown"
    /\ scheduler' = [scheduler EXCEPT !.pc = "check"]
    /\ UNCHANGED <<service, dispatch, call>>

\* lifespan, lines 57-58, and stop_polling, lines 440-441: the flag is
\* cleared and close() of the polling service is awaited.  The lifespan is
\* suspended at its yield after create_task, so the task has run by then.
StopPolling ==
    /\ scheduler.app = "serving"
    /\ scheduler.pc # "created"
    /\ scheduler' = [scheduler EXCEPT !.app = "closing", !.is_running = FALSE]
    /\ UNCHANGED <<service, dispatch, call>>

\* JobPollingService.close, line 405: the client of the job board is
\* closed and the close of the notifier is awaited
CloseGreenhouseClient ==
    /\ scheduler.app = "closing"
    /\ scheduler.closed = {}
    /\ scheduler' = [scheduler EXCEPT !.closed = {"greenhouse_client"}]
    /\ UNCHANGED <<service, dispatch, call>>

\* JobPollingService.close, line 406, and lifespan, lines 58-61: the
\* client of the notifier is closed and the shutdown goes on
CloseDiscordNotifier ==
    /\ scheduler.app = "closing"
    /\ scheduler.closed = {"greenhouse_client"}
    /\ scheduler' =
           [scheduler EXCEPT
               !.app = "stopped",
               !.closed = {"greenhouse_client", "discord_notifier"}]
    /\ UNCHANGED <<service, dispatch, call>>

SchedulerNext ==
    \/ CreateTask \/ StartPolling \/ LoopSweeps \/ LoopExits
    \/ SweepRaises \/ SleepEnds
    \/ StopPolling \/ CloseGreenhouseClient \/ CloseDiscordNotifier

SpecScheduler == SchedulerInit /\ [][SchedulerNext]_vars

\* the event loop runs a task that is ready, a sleep ends, and a sweep
\* ends (the select and the close of its session end)
SpecSchedulerFair ==
    /\ SpecScheduler
    /\ WF_vars(StartPolling) /\ WF_vars(LoopSweeps) /\ WF_vars(LoopExits)
    /\ WF_vars(SweepRaises) /\ WF_vars(SleepEnds)

\* stop_polling, lines 440-441, called by a caller of the class that does
\* not give the event loop a turn between create_task and the stop: the
\* flag is cleared before the first statement of start_polling has run
StopPollingEarly ==
    /\ scheduler.app = "serving"
    /\ scheduler.pc = "created"
    /\ scheduler' = [scheduler EXCEPT !.app = "closing", !.is_running = FALSE]
    /\ UNCHANGED <<service, dispatch, call>>

StopRaceNext == SchedulerNext \/ StopPollingEarly

\* every interleaving of stop_polling with the task of start_polling
SpecStopRace ==
    /\ SchedulerInit /\ [][StopRaceNext]_vars
    /\ WF_vars(StartPolling) /\ WF_vars(LoopSweeps) /\ WF_vars(LoopExits)
    /\ WF_vars(SweepRaises) /\ WF_vars(SleepEnds)

(***************************************************************************)
(* JobMatcher._job_matches_alert on its own, applied to one job and one    *)
(* alert.  A job object may lack department, location and job_type; the    *)
(* title is only read when the alert has keywords, and a title of None     *)
(* makes job.title.lower() raise AttributeError.                           *)
(***************************************************************************)
MatcherJobs ==
    [title : {"Engineer", "Senior Intern, Data", None},
     department : {"", "Eng", "sales"},
     location : {"", "Remote", "Seattle", "Boston (Remote)"},
     job_type : {"", "Full-time"}]

MatcherAlerts ==
    [company_slugs : {<<>>, <<"airbnb">>},
     title_keywords : {<<>>, <<"engineer">>},
     title_exclude_keywords : {<<>>, <<"senior">>, <<"Intern">>},
     departments : {<<>>, <<"Sales">>},
     locations : {<<>>, <<"Boston">>},
     job_types : {<<>>, <<"Intern">>},
     include_remote : BOOLEAN]

MatcherInit ==
    /\ ServiceInit
    /\ dispatch = NoDispatch /\ scheduler = NoScheduler
    /\ \E job \in MatcherJobs : \E alert \in MatcherAlerts :
           call = [fn |-> "_job_matches_alert",
                   args |-> [job |-> job, slug |-> "stripe", alert |-> alert],
                   result |-> "none"]

\* JobMatcher._job_matches_alert, lines 46-129: the result or the exception
JobMatchesAlert ==
    /\ call.fn = "_job_matches_alert"
    /\ call.result = "none"
    /\ LET job == call.args.job
           alert == call.args.alert
       IN  call' = [call EXCEPT !.result =
               IF /\ company_filter_ok(call.args.slug, alert)
                  /\ job.title = None
                  /\ \/ alert.title_keywords # <<>>
                     \/ alert.title_exclude_keywords # <<>>
               THEN "AttributeError"
               ELSE IF job_matches_alert(job, call.args.slug, alert)
                    THEN "True" ELSE "False"]
    /\ UNCHANGED <<service, dispatch, scheduler>>

SpecMatcher == MatcherInit /\ [][JobMatchesAlert]_vars

(***************************************************************************)
(* LocationMatcher on its own: match_location and normalize_location of    *)
(* one matcher object are called again and again, and its                  *)
(* _normalization_cache keeps the parts of every string it has normalized. *)
(* extract_unique_locations and suggest_similar_locations reach the cache  *)
(* through normalize_location, one call for each string.  A location that  *)
(* is None is the empty string.  The last location has a vertical tab      *)
(* (U+000B) between its two words.                                         *)
(***************************************************************************)
Locations ==
    {"", "Remote", "Seattle, San Francisco, US-Remote", "San Francisco",
     "New York", "NYC", "York", "NewYork"}

\* normalize_location, lines 121-158, with the cache of lines 124-126
normalize_cached(location, cache) ==
    IF location = "" THEN <<>>
    ELSE IF \E e \in cache : e[1] = location
         THEN (CHOOSE e \in cache : e[1] = location)[2]
         ELSE normalize_location(location)

\* match_location as the matcher object with this cache answers
match_cached(job_location, target_location, cache) ==
    IF job_location = "" \/ target_location = "" THEN FALSE
    ELSE match_parts(normalize_cached(job_location, cache),
                     normalize_cached(target_location, cache))

LocationInit ==
    /\ ServiceInit
    /\ dispatch = NoDispatch /\ scheduler = NoScheduler
    /\ call = [fn |-> "match_location", args |-> <<>>, result |-> "none",
               cache |-> {}]

\* LocationMatcher.match_location, lines 160-211
MatchLocation ==
    /\ call.fn = "match_location"
    /\ \E job_location \in Locations : \E target_location \in Locations :
           call' = [call EXCEPT
               !.args = <<job_location, target_location>>,
               !.result =
                   IF match_cached(job_location, target_location, call.cache)
                   THEN "True" ELSE "False",
               !.cache =
                   IF job_location = "" \/ target_location = "" THEN @
                   ELSE @ \cup {<<l, normalize_cached(l, call.cache)>> :
                                   l \in {job_location, target_location}}]
    /\ UNCHANGED <<service, dispatch, scheduler>>

\* LocationMatcher.normalize_location called on its own (matcher.py, lines
\* 190 and 199; filter_testing.py, lines 47 and 192): the parts are stored
\* in the cache, the empty string is answered without an entry
NormalizeCached ==
    /\ call.fn = "match_location"
    /\ \E location \in Locations :
           call' = [call EXCEPT !.cache =
               IF location = "" THEN @
               ELSE @ \cup {<<location, normalize_cached(location, call.cache)>>}]
    /\ UNCHANGED <<service, dispatch, scheduler>>

LocationNext == MatchLocation \/ NormalizeCached

SpecLocation == LocationInit /\ [][LocationNext]_vars

(***************************************************************************)
(* GreenhouseJob.content_hash on its own: the fingerprints of two records  *)
(* are computed and compared, as _process_job compares the fingerprint of  *)
(* a fetched record with the stored one.                                   *)
(***************************************************************************)
FingerprintRecords ==
    [title : {"Engineer", "Engineer|NYC"},
     location : {"", "SF", "NYC|SF"},
     department : {"", "Eng"},
     job_type : {"Full-time", "Intern"}]

FingerprintInit ==
    /\ ServiceInit
    /\ dispatch = NoDispatch /\ scheduler = NoScheduler
    /\ \E stored \in FingerprintRecords : \E gh_job \in FingerprintRecords :
           call = [fn |-> "content_hash", args |-> <<stored, gh_job>>,
                   result |-> "none"]

\* content_hash of both records, and the comparison of poller.py line 245
ContentHash ==
    /\ call.fn = "content_hash"
    /\ call.result = "none"
    /\ call' = [call EXCEPT !.result =
           IF content_hash(call.args[1]) = content_hash(call.args[2])
           THEN "equal" ELSE "different"]
    /\ UNCHANGED <<service, dispatch, scheduler>>

SpecFingerprint == FingerprintInit /\ [][ContentHash]_vars

(***************************************************************************)
(* LocationMatcher.normalize_location on its own, applied to location      *)
(* names of three sub-locations joined by two separators.                  *)
(***************************************************************************)
written_separators == {", ", "; ", " and ", " or ", " / "}

MixedLocations ==
    {a \o s \o b \o r \o c :
        a \in {"Seattle", "US-Denver", "Zürich"}, s \in written_separators,
        b \in {"Austin", "Boston"}, r \in written_separators,
        c \in {"Remote"}}

NormalizeInit ==
    /\ ServiceInit
    /\ dispatch = NoDispatch /\ scheduler = NoScheduler
    /\ \E location \in MixedLocations :
           call = [fn |-> "normalize_location", args |-> <<location>>,
                   result |-> "none", parts |-> <<>>]

\* LocationMatcher.normalize_location, lines 109-158
NormalizeLocation ==
    /\ call.fn = "normalize_location"
    /\ call.result = "none"
    /\ call' = [call EXCEPT !.result = "returned",
                            !.parts = normalize_location(call.args[1])]
    /\ UNCHANGED <<service, dispatch, scheduler>>

SpecNormalize == NormalizeInit /\ [][NormalizeLocation]_vars

(***************************************************************************)
(* Ingestion of the location: GreenhouseJob.__init__ parses the upstream   *)
(* location name and _process_job copies gh_job.location into the new row. *)
(***************************************************************************)
UpstreamNames ==
    {prefix \o city \o suffix :
        prefix \in {"", "US-", "ca-", "EU-", " ", ""},
        city \in {"NYC", "Toronto", "Winston-Salem", "Remote", "Seattle"},
        suffix \in {"", ", CA", " ", ", US-Remote", " or remote"}}

IngestInit ==
    /\ ServiceInit
    /\ dispatch = NoDispatch /\ scheduler = NoScheduler
    /\ \E name \in UpstreamNames :
           call = [fn |-> "_parse_location", args |-> <<name>>,
                   result |-> "none", location |-> ""]

\* GreenhouseJob.__init__, line 20, and Job(location=gh_job.location)
IngestLocation ==
    /\ call.fn = "_parse_location"
    /\ call.result = "none"
    /\ call' = [call EXCEPT !.result = "stored",
                            !.location = parse_location(call.args[1])]
    /\ UNCHANGED <<service, dispatch, scheduler>>

SpecIngest == IngestInit /\ [][IngestLocation]_vars

(***************************************************************************)
(* Properties                                                              *)
(***************************************************************************)
\* C1: for every (alert, job) pair at most one row of the notifications
\* table exists, in every reachable state, also when a poll and the initial
\* notification of a new alert handle the same pair at the same time.
\* The table has no unique constraint on (alert_id, job_id) and
\* send_initial_alert_notification writes its rows without a dedup select.
LedgerPairUnique ==
    \A n1 \in notifications : \A n2 \in notifications :
        (n1.alert_id = n2.alert_id /\ n1.job_id = n2.job_id) => n1.id = n2.id

\* C2: every (alert, posting) pair is delivered to the webhook at most once
\* over the whole run, also when the process stops after a send and before
\* the commit that ends the company's poll, and a later poll runs.
\* The formula speaks of the runs in which no alert is created, so that the
\* only writer of the ledger is the dedup-checked path of the poll.
DeliveredAtMostOnce ==
    user_alerts = InitAlerts => \A k \in DeliveryKeys : deliveries[k] <= 1

\* C3: at most one sweep (poll_all_companies) is in flight at any time: the
\* scheduler's sweep and a sweep started by POST /poll-now never overlap.
SingleSweepInFlight ==
    ~(sweep["scheduler"].pc = "close" /\ sweep["manual"].pc = "close")

\* the positions of a task inside _poll_company, after the audit entry
in_poll ==
    {"fetch", "select", "flush", "match", "company", "dedup", "send", "stamp",
     "commit", "failed"}

\* the (alert, job) pairs with a ledger row as the session of s has them:
\* stored, sent in its transaction, or added and not yet flushed
ledger_pairs(s) ==
    {<<n.alert_id, n.job_id>> : n \in view_notifications(s)}
        \cup {<<session[s].added[i].alert_id, session[s].added[i].job_id>> :
                 i \in DOMAIN session[s].added}

\* the step in which the select of _process_job is done and the branch is
\* taken
Processes(s) ==
    /\ sweep[s].pc = "select"
    /\ sweep'[s] # sweep[s]
    /\ sweep'[s].pc \in {"flush", "match", "select", "stamp"}

\* the rows the session reads for the key of the record at hand
stored_rows(s) ==
    {j \in view_jobs(s) :
        same_key(j, sweep[s].company, Head(sweep[s].gh_jobs).id)}

\* C4: _process_job takes exactly one of three outcomes for a record: new
\* iff no stored row has its (company, external id); changed iff a stored
\* row exists and its fingerprint differs; unchanged iff a stored row exists
\* with an equal fingerprint.  Only new and changed reach the notification
\* path, and after new or changed the stored fingerprint is the record's.
ThreeWayBranchExact ==
    [][\A s \in Sweeps :
        /\ Processes(s) =>
               LET gh_job == Head(sweep[s].gh_jobs)
                   stored == stored_rows(s)
               IN  /\ sweep'[s].pc = "flush" <=> stored = {}
                   /\ sweep'[s].pc = "match" <=>
                          /\ stored # {}
                          /\ \E j \in stored : j.content_hash # content_hash(gh_job)
                   /\ sweep'[s].pc \in {"select", "stamp"} <=>
                          /\ stored # {}
                          /\ \A j \in stored : j.content_hash = content_hash(gh_job)
                   /\ sweep'[s].pc = "match" =>
                          /\ sweep'[s].job_result.is_updated
                          /\ ~sweep'[s].job_result.is_new
                          /\ sweep'[s].job[1].content_hash = content_hash(gh_job)
        /\ (sweep[s].pc = "flush" /\ sweep'[s].pc = "match") =>
               /\ sweep'[s].job_result.is_new
               /\ ~sweep'[s].job_result.is_updated
        /\ (sweep'[s].pc \in {"company", "dedup", "send"}) =>
               /\ sweep'[s].job_result.is_new \/ sweep'[s].job_result.is_updated
               /\ \E j \in view_jobs(s)' :
                      same_key(j, sweep'[s].company, Head(sweep'[s].gh_jobs).id)
               /\ \A j \in view_jobs(s)' :
                      same_key(j, sweep'[s].company, Head(sweep'[s].gh_jobs).id) =>
                          j.content_hash = content_hash(Head(sweep'[s].gh_jobs))
      ]_vars

\* a changed record (J1b over the stored J1) has reached the notification
\* path and the row carries the new fingerprint
ChangedReachesNotify ==
    \E s \in Sweeps :
        /\ sweep[s].pc = "dedup"
        /\ sweep[s].job_result.is_updated /\ ~sweep[s].job_result.is_new
        /\ Head(sweep[s].gh_jobs) = J1b
        /\ \E j \in view_jobs(s) :
               j.id = sweep[s].job[1].id /\ j.content_hash = content_hash(J1b)

\* the step in which the session of s sends the UPDATE of a row that
\* _process_job found unchanged
FlushesUnchanged(s) ==
    /\ session[s].dirty_job # <<>>
    /\ session[s].dirty_job[1].object.content_hash =
           session[s].dirty_job[1].loaded.content_hash
    /\ sweep'[s] # sweep[s]
    /\ sweep'[s].pc \in in_poll

\* C5: a record fetched again with an unchanged fingerprint leaves title,
\* department, location, job type, URL, fingerprint, raw payload,
\* first_seen_at and is_active of the stored row as they were (only
\* last_seen_at is set), and nothing is matched, sent or written to the
\* ledger for it.
UnchangedLeavesRow ==
    [][\A s \in Sweeps :
        /\ (/\ Processes(s)
            /\ stored_rows(s) # {}
            /\ \A j \in stored_rows(s) :
                   j.content_hash = content_hash(Head(sweep[s].gh_jobs))) =>
               /\ session'[s].dirty_job # <<>>
               /\ \E j \in view_jobs(s)' :
                      /\ same_key(j, sweep[s].company, Head(sweep[s].gh_jobs).id)
                      /\ session'[s].dirty_job[1].object =
                             [j EXCEPT !.last_seen_at = now]
               /\ session'[s].added = <<>>
               /\ ledger_pairs(s)' = ledger_pairs(s)
               /\ deliveries' = deliveries
               /\ sweep'[s].pc \in {"select", "stamp"}
               /\ sweep'[s].gh_jobs = Tail(sweep[s].gh_jobs)
               /\ sweep'[s].company_stats = sweep[s].company_stats
        /\ FlushesUnchanged(s) =>
               /\ Cardinality(view_jobs(s)') = Cardinality(view_jobs(s))
               /\ \A j \in view_jobs(s) :
                      j.id = session[s].dirty_job[1].loaded.id =>
                          [j EXCEPT !.last_seen_at =
                               session[s].dirty_job[1].object.last_seen_at]
                              \in view_jobs(s)'
      ]_vars

\* J1u (the URL and payload of J1 changed, the fingerprint not) was
\* processed at time 1 over the row stored at time 0 and the UPDATE of the
\* row was sent: the row keeps the URL and payload of J1
UnchangedSeenAgain ==
    \E s \in Sweeps :
        /\ sweep[s].pc = "match"
        /\ sweep[s].gh_jobs = <<J1b>>
        /\ fetched[sweep[s].poll_log] = <<J1u, J1b>>
        /\ \E j \in session[s].jobs :
               /\ same_key(j, 1, "101")
               /\ j.external_url = J1.absolute_url
               /\ j.raw_data = J1.raw_data
               /\ j.first_seen_at = 0
               /\ j.last_seen_at = 1

\* the step in which _poll_company ends with success (lines 176-191)
Succeeds(s) ==
    /\ sweep[s].pc = "commit"
    /\ sweep'[s].pc = "idle"
    /\ sweep'[s].result = "returned"

\* the attempt before attempt i on the same company, or 0
previous_attempt(i) ==
    LET earlier == {k \in 1..(i - 1) :
                       poll_logs[k].company_id = poll_logs[i].company_id}
    IN  IF earlier = {} THEN 0
        ELSE CHOOSE k \in earlier : \A m \in earlier : m <= k

\* attempt i got the list that the attempt before it on the same company
\* got, and that attempt ended with success
repeats_previous(i) ==
    /\ previous_attempt(i) # 0
    /\ poll_logs[previous_attempt(i)].status = "success"
    /\ fetched[previous_attempt(i)] = fetched[i]

\* the records of a list that carry the same id carry the same fingerprint
same_id_same_hash(response) ==
    \A i \in 1..Len(response) : \A k \in 1..Len(response) :
        response[i].id = response[k].id =>
            content_hash(response[i]) = content_hash(response[k])

\* what C6 asks of the successful end of a repeated poll: no new and no
\* updated job is reported, every stored fingerprint is as it was, and
\* nothing was sent or written to the ledger
nothing_to_report(s) ==
    /\ poll_logs'[sweep[s].poll_log].new_jobs = 0
    /\ poll_logs'[sweep[s].poll_log].updated_jobs = 0
    /\ \A j \in jobs : \E k \in jobs' :
           k.id = j.id /\ k.content_hash = j.content_hash
    /\ Cardinality(jobs') = Cardinality(jobs)
    /\ sweep[s].company_stats.notifications_sent = 0
    /\ sweep[s].company_stats.notifications_failed = 0
    /\ notifications' = notifications

\* C6 as stated: if a company returns the same list in two consecutive
\* successful polls, the second poll reports new = 0 and updated = 0,
\* leaves every stored fingerprint unchanged and sends nothing, for every
\* list, also one that holds the same external id more than once.
RepeatedPollIdempotentAnyList ==
    [][\A s \in Sweeps :
        (Succeeds(s) /\ repeats_previous(sweep[s].poll_log)) =>
            nothing_to_report(s)]_vars

\* C6, amended: the same for every list whose records with the same
\* external id have the same fingerprint.
RepeatedPollIdempotent ==
    [][\A s \in Sweeps :
        (/\ Succeeds(s)
         /\ repeats_previous(sweep[s].poll_log)
         /\ same_id_same_hash(fetched[sweep[s].poll_log])) =>
            nothing_to_report(s)]_vars

\* two consecutive successful polls of company 1 got the list <<J1>>, and
\* the second reported nothing
PolledTwiceSameList ==
    \E i \in DOMAIN poll_logs :
        /\ repeats_previous(i)
        /\ fetched[i] = <<J1>>
        /\ poll_logs[i].status = "success"
        /\ poll_logs[i].jobs_found = 1
        /\ poll_logs[i].new_jobs = 0
        /\ poll_logs[i].updated_jobs = 0

\* C7: a failure while one company is polled (in the fetch, the diff or the
\* dispatch) never aborts the sweep: nothing is raised out of _poll_company
\* and poll_all_companies.  The process stopping is not a failure of a
\* poll.
PollFailureIsolated ==
    [][\A s \in Sweeps :
        (sweep[s].pc \in in_poll /\ crashes' = crashes) =>
            sweep'[s].result # "raised"]_vars

\* the step in which a poll attempt ends with an exception
Fails(s) ==
    /\ sweep[s].pc \in in_poll
    /\ crashes' = crashes
    /\ sweep'[s].pc = "idle"
    /\ \/ poll_logs'[sweep[s].poll_log].status = "error"
       \/ sweep'[s].result = "raised"

\* the due test of the specification on a row of companies: active, and
\* last_polled_at null or older than the poll interval, both in minutes
due(c) ==
    /\ c.is_active
    /\ c.ats_type = "greenhouse"
    /\ \/ c.last_polled_at = NULL
       \/ c.last_polled_at * TickMinutes
              < now * TickMinutes - c.poll_interval_minutes

\* C8: last_polled_at of a company is changed only by a poll attempt that
\* ends with success; an attempt that ends in an error leaves it as it was,
\* so a company that was due stays due.
LastPolledOnlyOnSuccess ==
    [][\A c \in DOMAIN companies :
        /\ companies'[c].last_polled_at # companies[c].last_polled_at =>
               \E s \in Sweeps :
                   /\ Succeeds(s)
                   /\ sweep[s].company = c
                   /\ poll_logs[sweep[s].poll_log].status = "running"
                   /\ poll_logs'[sweep[s].poll_log].status = "success"
        /\ \A s \in Sweeps :
               (Fails(s) /\ sweep[s].company = c) =>
                   /\ companies'[c] = companies[c]
                   /\ due(companies[c]) => due(companies[c])'
      ]_vars

\* an attempt on company 1 ended in an error after one before it had ended
\* with success at time 0: last_polled_at is still 0 and the company is due
ErrorKeepsLastPolled ==
    \E i \in DOMAIN poll_logs :
        /\ poll_logs[i].company_id = 1
        /\ poll_logs[i].status = "error"
        /\ previous_attempt(i) # 0
        /\ poll_logs[previous_attempt(i)].status = "success"
        /\ poll_logs[previous_attempt(i)].completed_at = 0
        /\ companies[1].last_polled_at = 0
        /\ now = 1
        /\ due(companies[1])

\* C9: every poll attempt creates exactly one audit entry, which starts as
\* "running"; when the attempt has returned the entry is "success" or
\* "error"; a terminal entry is never changed again; no entry stays
\* "running" after its attempt has returned.
AuditEntryLifecycle ==
    [][/\ \A s \in Sweeps :
             (sweep[s].pc = "idle" /\ sweep'[s].pc = "fetch") =>
                 /\ Len(poll_logs') = Len(poll_logs) + 1
                 /\ poll_logs'[Len(poll_logs')].status = "running"
                 /\ sweep'[s].poll_log = Len(poll_logs')
       /\ Len(poll_logs') # Len(poll_logs) =>
             \E s \in Sweeps : sweep[s].pc = "idle" /\ sweep'[s].pc = "fetch"
       /\ \A i \in DOMAIN poll_logs :
             poll_logs[i].status \in {"success", "error"} =>
                 poll_logs'[i] = poll_logs[i]
       /\ \A s \in Sweeps :
             (/\ sweep[s].pc \in in_poll
              /\ sweep'[s].pc \notin in_poll
              /\ crashes' = crashes) =>
                 poll_logs'[sweep[s].poll_log].status \in {"success", "error"}
      ]_vars

\* the step in which _send_job_notifications records a send that failed
RecordsFailedSend(s) ==
    /\ sweep[s].pc = "send"
    /\ sweep'[s] # sweep[s]
    /\ sweep'[s].pc \in in_poll
    /\ deliveries' = deliveries

\* the counts of the poll after the step, with those of the record at hand
counted_failed(sw) ==
    sw.company_stats.notifications_failed + sw.job_result.notifications_failed

\* C10: a failed send for one (alert, job) during a poll is recorded as a
\* ledger row with status "failed", raises nothing, is not tried again
\* while the row is in the ledger, and the alerts after it in the list of
\* matching alerts are still handled.
FailedSendRecorded ==
    [][\A s \in Sweeps :
        /\ RecordsFailedSend(s) =>
               /\ session'[s].added =
                      <<[alert_id |-> Head(sweep[s].matching_alerts),
                         job_id |-> sweep[s].job[1].id,
                         notification_type |-> "discord", status |-> "failed"]>>
               /\ poll_logs' = poll_logs
               /\ sweep'[s].pc \in {"dedup", "select", "stamp"}
               /\ sweep'[s].pc = "dedup" <=> Tail(sweep[s].matching_alerts) # <<>>
               /\ sweep'[s].pc = "dedup" =>
                      sweep'[s].matching_alerts = Tail(sweep[s].matching_alerts)
               /\ counted_failed(sweep'[s]) = counted_failed(sweep[s]) + 1
        /\ (session[s].added # <<>> /\ sweep'[s] # sweep[s]
                /\ (sweep'[s].pc \in in_poll \/ sweep'[s].result = "returned")
                /\ crashes' = crashes) =>
               \E n \in notifications' \cup session'[s].notifications :
                   /\ n.alert_id = session[s].added[1].alert_id
                   /\ n.job_id = session[s].added[1].job_id
                   /\ n.status = session[s].added[1].status
        /\ (sweep[s].pc = "dedup" /\ sweep'[s].pc = "send") =>
               <<Head(sweep[s].matching_alerts), sweep[s].job[1].id>>
                   \notin ledger_pairs(s)
      ]_vars

\* the send to alert 1 failed and the send to alert 2 for the same job was
\* made: the session holds a "failed" row and the "sent" row was added
FailedThenNextAlertSent ==
    \E s \in Sweeps :
        \E n1 \in session[s].notifications :
            /\ n1.alert_id = 1 /\ n1.status = "failed"
            /\ session[s].added # <<>>
            /\ session[s].added[1].alert_id = 2
            /\ session[s].added[1].status = "sent"
            /\ session[s].added[1].job_id = n1.job_id

\* C11: once a ledger row is stored for an (alert, job) pair, with status
\* "sent" or "failed", no step of a later poll makes a delivery attempt for
\* that pair: no message is posted for it by _send_job_notifications, also
\* after the fingerprint of the job changed.  An attempt is made in the
\* step that posts the message, after the dedup select.
NoAttemptAfterRecord ==
    [][\A n \in notifications : \A s \in Sweeps :
        (sweep[s].pc = "dedup" /\ sweep'[s].pc = "send") =>
            ~(/\ Head(sweep[s].matching_alerts) = n.alert_id
              /\ sweep[s].job[1].id = n.job_id)
      ]_vars

\* a changed posting is in the alert loop, alert 1 holds a stored "failed"
\* row for it and was passed over without a new row, alert 2 is next
ChangedSkippedByLedger ==
    \E s \in Sweeps :
        /\ sweep[s].pc = "dedup"
        /\ sweep[s].job_result.is_updated
        /\ sweep[s].matching_alerts = <<2>>
        /\ \E n \in notifications :
              n.alert_id = 1 /\ n.job_id = sweep[s].job[1].id /\ n.status = "failed"
        /\ ~\E m \in session[s].notifications : m.alert_id = 1
        /\ session[s].added = <<>>
        /\ sweep[s].job[1].title = "Staff Engineer"

\* the alerts whose turn in the loop of _send_job_notifications ends with
\* this step
alerts_handled(s) ==
    SeqToSet(sweep[s].matching_alerts) \
        (IF sweep'[s].pc \in {"dedup", "send"}
         THEN SeqToSet(sweep'[s].matching_alerts) ELSE {})

\* the alerts the select of find_matching_alerts returned to s
alerts_selected(s) ==
    IF sweep[s].pc = "match"
    THEN {a.id : a \in {u \in user_alerts : u.is_active}}
    ELSE SeqToSet(sweep[s].alerts) \cup SeqToSet(sweep[s].matching_alerts)

\* the alert as the matching engine has it before it: the row the select
\* of this step loads, or the object the select loaded
alert_selected(s, a) ==
    IF sweep[s].pc = "match" THEN alert_row(a) ELSE loaded_alert(sweep[s], a)

\* the parts of C12 that do not depend on the alert: the loop is entered with
\* the active alerts the matching engine accepts for the new or changed job,
\* the rows a poll recorded stay in its transaction, and the commit of a
\* completed poll stores them
ledger_rows_kept(s) ==
    LET job == sweep[s].job[1]
        accepted ==
            {a \in alerts_selected(s) :
                job_matches_alert(job, companies[sweep[s].company].slug,
                                  alert_selected(s, a))}
    IN  /\ (/\ sweep[s].pc \in {"match", "company"}
            /\ sweep'[s].pc \in {"dedup", "select", "stamp"}) =>
               IF accepted = {}
               THEN sweep'[s].pc \in {"select", "stamp"}
               ELSE /\ sweep'[s].pc = "dedup"
                    /\ SeqToSet(sweep'[s].matching_alerts) = accepted
                    /\ sweep'[s].job = sweep[s].job
        /\ (sweep[s].pc \in in_poll /\ sweep'[s].pc \in in_poll) =>
               ledger_pairs(s) \subseteq ledger_pairs(s)'
        /\ Succeeds(s) =>
               ledger_pairs(s) \subseteq
                   {<<n.alert_id, n.job_id>> : n \in notifications'}

\* C12: when the poll of a company has completed, every job it classified
\* as new or changed has a ledger row with every active alert the matching
\* engine accepts for it: the loop of _send_job_notifications leaves a
\* ledger row for every alert of its list, and the rows stay until the
\* commit of the poll stores them.
LedgerCoversAcceptedAlerts ==
    [][\A s \in Sweeps :
        /\ ledger_rows_kept(s)
        /\ (/\ sweep[s].pc \in {"dedup", "send"}
            /\ sweep'[s].pc \in {"dedup", "send", "select", "stamp"}) =>
               \A a \in alerts_handled(s) :
                   <<a, sweep[s].job[1].id>> \in ledger_pairs(s)'
      ]_vars

\* the step in which send_initial_alert_notification posted its message for
\* alert a and the send failed
InitialSendFails(a) ==
    /\ tasks("initial", a, "send") # {}
    /\ tasks("initial", a, "commit")' = {}
    /\ tasks("initial", a, "send")' = {}
    /\ crashes' = crashes

\* C13: every delivery attempt that fails leaves a ledger row with status
\* "failed" for each (alert, job) pair of the attempt: the attempts of
\* _send_job_notifications and the attempt of the initial notification.
FailedAttemptsRecorded ==
    [][/\ \A s \in Sweeps :
             RecordsFailedSend(s) =>
                 /\ session'[s].added # <<>>
                 /\ session'[s].added[1].alert_id = Head(sweep[s].matching_alerts)
                 /\ session'[s].added[1].job_id = sweep[s].job[1].id
                 /\ session'[s].added[1].status = "failed"
       /\ \A a \in 1..MaxAlerts :
             InitialSendFails(a) =>
                 \A t \in tasks("initial", a, "send") :
                     \A i \in DOMAIN t.matching_jobs :
                         \E n \in notifications' :
                             /\ n.alert_id = a
                             /\ n.job_id = t.matching_jobs[i].id
                             /\ n.status = "failed"
      ]_vars

\* the entries of a message that show a job: all fields but the summary of
\* further jobs and the alert criteria
job_entries(message) ==
    SelectSeq(message.embeds[1].fields,
              LAMBDA f : f.name \notin {"Additional Jobs", "Alert Criteria"})

\* the entries of a message that summarise further jobs
summary_entries(message) ==
    SelectSeq(message.embeds[1].fields, LAMBDA f : f.name = "Additional Jobs")

\* C14: a poll that finds n > 10 new jobs matching one alert sends exactly
\* one message, with 10 job entries and one summary entry reporting n - 10.
PollSendsOneBatchedMessage ==
    (dispatch.pc = "polled" /\ Len(dispatch.jobs) > 10) =>
        /\ Len(dispatch.outbox) = 1
        /\ Len(job_entries(dispatch.outbox[1])) = 10
        /\ Len(summary_entries(dispatch.outbox[1])) = 1
        /\ Contains(" " \o ToString(Len(dispatch.jobs) - 10) \o " ",
                    summary_entries(dispatch.outbox[1])[1].value)

\* C15: every message built for a batch of n jobs shows min(n, 10) job
\* entries, which are the first jobs of the batch in their order, and holds
\* a summary entry of further jobs, reporting n - 10, exactly when n > 10;
\* for the initial notification and for the others alike.
EmbedShowsFirstTen ==
    \A k \in DOMAIN dispatch.outbox :
        LET batch == dispatch.calls[k].jobs
            n == Len(batch)
            fields == dispatch.outbox[k].embeds[1].fields
            shown == job_entries(dispatch.outbox[k])
            summary == summary_entries(dispatch.outbox[k])
        IN  /\ Len(shown) = IF n < 10 THEN n ELSE 10
            /\ \A i \in DOMAIN shown :
                  /\ fields[i] = shown[i]
                  /\ shown[i].name = "**" \o batch[i].title \o "**"
                  /\ Contains(batch[i].external_url, shown[i].value)
            /\ Len(summary) = IF n > 10 THEN 1 ELSE 0
            /\ n > 10 =>
                  /\ fields[11] = summary[1]
                  /\ summary[1].value = "... and " \o ToString(n - 10)
                        \o " more jobs! Check your alert dashboard for the complete list."

\* an initial message and another message for a batch of 12 jobs were
\* built: each shows 10 jobs and reports 2 more
BatchOfTwelveSummarised ==
    /\ dispatch.pc \in {"initial", "batch"}
    /\ Len(dispatch.jobs) = MaxBatch
    /\ Len(dispatch.outbox) = 1
    /\ Len(dispatch.outbox[1].embeds[1].fields) = 12
    /\ Contains("and 2 more", dispatch.outbox[1].embeds[1].fields[11].value)

\* the task that a step makes of the request or background task t
after(t) == {u \in background' : u.kind = t.kind /\ u.alert = t.alert}

\* C16: the initial notification of an alert leaves out every job that
\* already has a ledger row with the alert: the job is not sent again and
\* gets no second row.
InitialSkipsRecordedPairs ==
    [][\A t \in background :
        (t.kind = "initial" /\ t \notin background' /\ crashes' = crashes) =>
            \A n \in notifications :
                n.alert_id = t.alert =>
                    /\ \A j \in jobs :
                          j.id = n.job_id =>
                              deliveries'[delivery_key(t.alert, j)] =
                                  deliveries[delivery_key(t.alert, j)]
                    /\ {m \in notifications' :
                           m.alert_id = t.alert /\ m.job_id = n.job_id} =
                       {m \in notifications :
                           m.alert_id = t.alert /\ m.job_id = n.job_id}
      ]_vars

\* C17: the initial notification of an alert covers exactly the stored
\* active jobs the matching engine accepts for the alert, whatever the
\* criteria are, also for an alert without companies, which the matching
\* engine takes as all companies: these are the jobs it selects, and the
\* jobs a successful send delivers and records.
InitialCoversAcceptedJobs ==
    [][\A t \in background :
        (t.kind = "initial" /\ t \notin background' /\ crashes' = crashes) =>
            LET alert == alert_row(t.alert)
                accepted ==
                    {j \in jobs :
                        /\ j.is_active
                        /\ job_matches_alert(j, companies[j.company_id].slug, alert)}
            IN  /\ (/\ t.pc \in {"alert", "companies", "jobs", "company"}
                    /\ \A u \in after(t) : u.pc = "send") =>
                       IF after(t) = {} THEN accepted = {}
                       ELSE \A u \in after(t) :
                                SeqToSet(u.matching_jobs) = accepted
                /\ (t.pc = "send" /\ deliveries' # deliveries) =>
                       \A k \in DeliveryKeys :
                           deliveries'[k] # deliveries[k] <=>
                               \E j \in accepted : k = delivery_key(t.alert, j)
                /\ t.pc = "commit" =>
                       {n.job_id : n \in notifications' \ notifications} =
                           {j.id : j \in accepted}
      ]_vars

\* C18: the loop of start_polling does not end because a sweep raised: a
\* sweep that ends leaves the loop sleeping (for the interval after a
\* return, for the cooldown after an exception), start_polling returns only
\* at the loop condition with the flag cleared, and after the cooldown
\* another sweep is started unless the flag has been cleared.
LoopSurvivesSweepErrors ==
    /\ [][/\ (scheduler.pc = "sweep" /\ scheduler'.pc # "sweep") =>
                 scheduler'.pc \in {"sleep", "cooldown"}
          /\ (scheduler.pc # "exited" /\ scheduler'.pc = "exited") =>
                 scheduler.pc = "check" /\ ~scheduler.is_running
         ]_vars
    /\ (scheduler.pc = "cooldown") ~>
           (scheduler.pc = "sweep" \/ ~scheduler.is_running)

\* a sweep raised and the loop has started the next sweep
SweepAfterError ==
    /\ scheduler.pc = "sweep"
    /\ scheduler.errors >= 1
    /\ scheduler.sweeps >= 2
    /\ scheduler.is_running

\* C19: the HTTP clients of the polling service are not closed while a sweep
\* started by the loop is running: stopping lets the sweep in flight finish
\* before close() releases them.
ClientsOpenWhileSweeping ==
    scheduler.pc = "sweep" => scheduler.closed = {}

\* C20: for a job without department, location and job_type and an alert
\* whose criteria lists are all empty, _job_matches_alert returns True and
\* does not raise, whatever include_remote is.
EmptyCriteriaAcceptBareJob ==
    LET job == call.args.job
        alert == call.args.alert
    IN  (/\ call.fn = "_job_matches_alert"
         /\ call.result # "none"
         /\ job.department = "" /\ job.location = "" /\ job.job_type = ""
         /\ alert.company_slugs = <<>>
         /\ alert.title_keywords = <<>>
         /\ alert.title_exclude_keywords = <<>>
         /\ alert.departments = <<>>
         /\ alert.locations = <<>>
         /\ alert.job_types = <<>>) =>
            call.result = "True"

\* the engine was applied to a job with nothing but a title and an alert
\* without criteria that does not include remote jobs
BareJobAccepted ==
    /\ call.fn = "_job_matches_alert"
    /\ call.result = "True"
    /\ call.args.job.department = ""
    /\ call.args.job.location = ""
    /\ call.args.job.job_type = ""
    /\ call.args.alert = [company_slugs |-> <<>>, title_keywords |-> <<>>,
                          title_exclude_keywords |-> <<>>, departments |-> <<>>,
                          locations |-> <<>>, job_types |-> <<>>,
                          include_remote |-> FALSE]

\* C25: match_location is symmetric: the answer to (a, b) is the answer to
\* (b, a), for empty or missing strings too, whether the reversed call is
\* made by the same matcher with the cache it has by now or by a matcher
\* whose cache is empty.
LocationMatchSymmetric ==
    (call.fn = "match_location" /\ call.result # "none") =>
        /\ match_cached(call.args[2], call.args[1], call.cache)
               <=> call.result = "True"
        /\ match_location(call.args[2], call.args[1]) <=> call.result = "True"

\* a multi-location string was matched with "Remote" by a matcher that had
\* normalized other strings before, and the answer is True
MultiLocationMatchedRemote ==
    /\ call.fn = "match_location"
    /\ call.args = <<"Remote", "Seattle, San Francisco, US-Remote">>
    /\ call.result = "True"
    /\ \E e \in call.cache : e[1] = "New York"

\* C26: a multi-location string matches a target whenever one of its
\* sub-locations does: if some part of the job location equals, contains or
\* is contained in some part of the target location, match_location answers
\* True, whatever the other parts are.
AnySubLocationMatches ==
    (call.fn = "match_location" /\ call.result # "none"
        /\ call.args[1] # "" /\ call.args[2] # "") =>
        LET job_parts == normalize_location(call.args[1])
            target_parts == normalize_location(call.args[2])
        IN  (\E i \in 1..Len(job_parts) : \E j \in 1..Len(target_parts) :
                \/ job_parts[i] = target_parts[j]
                \/ Contains(job_parts[i], target_parts[j])
                \/ Contains(target_parts[j], job_parts[i]))
            => call.result = "True"

\* the three-location string was matched with its second sub-location
SecondSubLocationMatched ==
    /\ call.fn = "match_location"
    /\ call.args = <<"Seattle, San Francisco, US-Remote", "San Francisco">>
    /\ Len(normalize_location(call.args[1])) = 3
    /\ call.result = "True"

\* C27: match_location answers True only if some part of one string equals
\* or is a substring of some part of the other, or both strings have a part
\* that is an element of the alias list of one and the same group.
MatchOnlyBySharedTokenOrAlias ==
    (call.fn = "match_location" /\ call.result = "True") =>
        LET job_parts == normalize_location(call.args[1])
            target_parts == normalize_location(call.args[2])
        IN  \/ \E i \in 1..Len(job_parts) : \E j \in 1..Len(target_parts) :
                \/ job_parts[i] = target_parts[j]
                \/ Contains(job_parts[i], target_parts[j])
                \/ Contains(target_parts[j], job_parts[i])
            \/ \E g \in 1..Len(location_mappings) :
                /\ \E i \in 1..Len(job_parts) :
                       InSeq(job_parts[i], location_mappings[g])
                /\ \E j \in 1..Len(target_parts) :
                       InSeq(target_parts[j], location_mappings[g])

\* C21: an alert with a non-empty list of locations does not match a job
\* that has no location (None or the empty string).
NoLocationNoMatch ==
    (/\ call.fn = "_job_matches_alert"
     /\ call.result # "none"
     /\ call.args.alert.locations # <<>>
     /\ call.args.job.location = "") =>
        call.result # "True"

\* C22: the department filter and the job-type filter are exact membership
\* tests that pass without a test only when the alert's list is empty: with
\* a non-empty list a job matches only if its department (its job type) is
\* an element of the list, as written; a job without the field is rejected.
ExactMembershipFilters ==
    LET job == call.args.job
        alert == call.args.alert
    IN  (call.fn = "_job_matches_alert" /\ call.result = "True") =>
            /\ alert.departments # <<>>
                   => InSeq(job.department, alert.departments)
            /\ alert.job_types # <<>>
                   => InSeq(job.job_type, alert.job_types)

\* C23: the remote exclusion is the last word: with include_remote false a
\* job whose location is_remote_location classifies as remote is never
\* accepted, whatever the other criteria are, even when one of the alert's
\* locations matched the job.
RemoteExclusionOverrides ==
    (/\ call.fn = "_job_matches_alert"
     /\ call.result # "none"
     /\ ~call.args.alert.include_remote
     /\ is_remote_location(call.args.job.location)) =>
        call.result # "True"

\* a remote job in Boston was turned down for an alert that lists Boston and
\* has no other criterion
ListedRemoteJobRejected ==
    /\ call.fn = "_job_matches_alert"
    /\ call.result = "False"
    /\ call.args.job = [title |-> "Engineer", department |-> "",
                        location |-> "Boston (Remote)", job_type |-> ""]
    /\ match_location(call.args.job.location, "Boston")
    /\ call.args.alert = [company_slugs |-> <<>>, title_keywords |-> <<>>,
                          title_exclude_keywords |-> <<>>, departments |-> <<>>,
                          locations |-> <<"Boston">>, job_types |-> <<>>,
                          include_remote |-> FALSE]

\* C24: a job whose title contains one of the alert's exclude keywords as a
\* substring, upper and lower case taken as equal, is never accepted,
\* whatever the other criteria are.
ExcludeKeywordRejects ==
    LET job == call.args.job
        alert == call.args.alert
    IN  (/\ call.fn = "_job_matches_alert"
         /\ call.result # "none"
         /\ job.title # None
         /\ \E i \in 1..Len(alert.title_exclude_keywords) :
                Contains(lower(alert.title_exclude_keywords[i]),
                         lower(job.title))) =>
            call.result # "True"

\* "Senior Intern, Data" was turned down for an alert whose only criterion
\* is the exclude keyword "Intern"
SeniorInternExcluded ==
    /\ call.fn = "_job_matches_alert"
    /\ call.result = "False"
    /\ call.args.job.title = "Senior Intern, Data"
    /\ call.args.alert = [company_slugs |-> <<>>, title_keywords |-> <<>>,
                          title_exclude_keywords |-> <<"Intern">>,
                          departments |-> <<>>, locations |-> <<>>,
                          job_types |-> <<>>, include_remote |-> TRUE]

\* C28: (company_id, external_id) is unique among the rows of the jobs
\* table in every reachable state, also when a response lists an external
\* id twice and when two sweeps process the same company at the same time.
StoredKeyUnique ==
    \A a \in jobs : \A b \in jobs :
        same_key(a, b.company_id, b.external_id) => a = b

\* two sweeps polled stripe at the same time and both got the list with
\* job 101: one stored it, the flush of the other was refused and its poll
\* log stays "running"
ConcurrentInsertRefused ==
    \E s \in Sweeps : \E i \in 1..Len(poll_logs) : \E k \in 1..Len(poll_logs) :
        /\ i # k
        /\ sweep[s].result = "raised"
        /\ poll_logs[i].company_id = 1 /\ poll_logs[k].company_id = 1
        /\ poll_logs[i].status = "running" /\ fetched[i] = <<J1>>
        /\ poll_logs[k].status = "success" /\ fetched[k] = <<J1>>
        /\ Cardinality({j \in jobs : same_key(j, 1, "101")}) = 1

\* C29: two records have equal fingerprints if and only if their title,
\* location, department and job_type are all equal: records that differ in
\* one of the four fields never get the same fingerprint.
FingerprintInjective ==
    (call.fn = "content_hash" /\ call.result # "none") =>
        (call.result = "equal" <=>
            /\ call.args[1].title = call.args[2].title
            /\ call.args[1].location = call.args[2].location
            /\ call.args[1].department = call.args[2].department
            /\ call.args[1].job_type = call.args[2].job_type)

\* C30: the pipeline treats the rows of user_alerts as read-only except for
\* last_notified_at: no step of a poll or of a dispatch changes another
\* column of an alert, and last_notified_at changes only when a delivery to
\* that alert has succeeded.
AlertsReadOnlyButLastNotified ==
    [][\A a \in user_alerts : \A b \in user_alerts' :
          a.id = b.id =>
              /\ [b EXCEPT !.last_notified_at = a.last_notified_at] = a
              /\ b.last_notified_at # a.last_notified_at =>
                     \E k \in DeliveryKeys :
                         k[1] = a.id /\ deliveries'[k] > 0]_vars

\* C32: normalize_location splits on every separator of its list: no part
\* it returns contains a comma, a semicolon, " and ", " or " or a slash, so
\* a name that mixes separators gives one part per sub-location.
SplitsOnEverySeparator ==
    (call.fn = "normalize_location" /\ call.result = "returned") =>
        /\ Len(call.parts) = 3
        /\ \A i \in 1..Len(call.parts) : \A k \in 1..Len(separators) :
               ~Contains(separators[k], call.parts[i])

\* C33: the location stored at ingestion is the upstream location name,
\* trimmed, not normalized or rewritten: for every upstream name, also one
\* with a remote sub-location or a country-code prefix, the stored location
\* equals the raw name.
StoredLocationIsRawName ==
    (call.fn = "_parse_location" /\ call.result = "stored") =>
        call.location = strip(call.args[1])

\* the poll attempts that begin in the step
attempts_begun == (DOMAIN poll_logs') \ (DOMAIN poll_logs)

\* C31: a company is polled in a sweep only if it is active and its
\* last_polled_at is NULL or older than its poll interval: in every step
\* of poll_all_companies, called by the scheduler or by a manual trigger,
\* a poll attempt begins only for a company that is due at that moment,
\* also after the company was polled with success by a call of
\* _poll_company.  The steps of poll_all_companies are the select of the
\* due companies and the close of the session.
PolledOnlyWhenDue ==
    [][\A s \in Sweeps :
        (/\ sweep'[s] # sweep[s]
         /\ sweep[s].pc = "close" \/ sweep'[s].pc = "close") =>
            \A i \in attempts_begun :
                due(companies[poll_logs'[i].company_id])
      ]_vars

\* the select of a sweep has run while airbnb is inactive, stripe was
\* polled with success and its interval has not elapsed, and no poll
\* attempt is under way: the sweep polls neither
NotDuePassedOver ==
    \E s \in Sweeps :
        /\ sweep[s].pc = "close"
        /\ ~companies[2].is_active
        /\ companies[1].last_polled_at # NULL
        /\ ~due(companies[1])
        /\ \E i \in DOMAIN poll_logs :
               poll_logs[i].company_id = 1 /\ poll_logs[i].status = "success"
        /\ \A i \in DOMAIN poll_logs : poll_logs[i].status # "running"

\* C34: once stop_polling has been called, the loop of start_polling starts
\* no new sweep and eventually exits, in every interleaving of stop_polling
\* with the loop task, also when the stop is requested before the task has
\* run its first statement.
StopIsFinal ==
    /\ [][scheduler.app \in {"closing", "stopped"} =>
              ~(scheduler.pc # "sweep" /\ scheduler'.pc = "sweep")]_vars
    /\ (scheduler.app \in {"closing", "stopped"}) ~> (scheduler.pc = "exited")

\* C35: when the poll of a company ends in an error after some of the
\* fetched records were processed, the job rows and the ledger rows written
\* for those records are kept: they are committed with the error audit
\* entry, so that the next poll of the company finds them unchanged and
\* sends nothing for them again.
ErrorKeepsProcessedRecords ==
    [][\A s \in Sweeps :
          Fails(s) =>
              /\ \A j \in session[s].jobs :
                     \E k \in jobs' :
                         k.id = j.id /\ k.content_hash = j.content_hash
              /\ \A n \in session[s].notifications : n \in notifications'
      ]_vars

\* C36: the audit entry of every poll attempt, successful or failed, holds
\* the counts of the attempt: jobs_found is the number of records fetched,
\* new_jobs the number of rows the attempt inserted, and the three counts
\* are the per-company counts that _poll_company returns to the sweep for
\* its statistics.
AuditCountsMatch ==
    [][\A s \in Sweeps :
          (Succeeds(s) \/ Fails(s)) =>
              LET entry == poll_logs'[sweep[s].poll_log]
                  inserted == {p \in session[s].jobs :
                                  ~\E j \in jobs : j.id = p.id}
              IN  /\ entry.jobs_found = Len(fetched[sweep[s].poll_log])
                  /\ entry.new_jobs = Cardinality(inserted)
                  /\ sweep'[s].result = "returned" =>
                         /\ entry.jobs_found = sweep[s].company_stats.jobs_found
                         /\ entry.new_jobs = sweep[s].company_stats.new_jobs
                         /\ entry.updated_jobs =
                                sweep[s].company_stats.updated_jobs
      ]_vars

\* C37: an alert whose is_active is false when a poll selects the alerts
\* for a job (find_matching_alerts) gets no delivery and no ledger row for
\* that job from the poll, even if all its criteria accept the job: the
\* alerts selected are active at the select, the matching alerts are among
\* them, and a poll posts messages and records attempts only for the alert
\* at the head of the list of matching alerts.
InactiveNeverSelected ==
    [][\A s \in Sweeps :
          /\ (sweep[s].pc = "match" /\ sweep'[s].pc \in {"company", "dedup"}) =>
                 \A a \in SeqToSet(sweep'[s].alerts)
                              \cup SeqToSet(sweep'[s].matching_alerts) :
                     alert_row(a).is_active
          /\ (sweep[s].pc = "company" /\ sweep'[s].pc \in {"company", "dedup"}) =>
                 SeqToSet(sweep'[s].alerts) \cup SeqToSet(sweep'[s].matching_alerts)
                     \subseteq SeqToSet(sweep[s].alerts)
                                   \cup SeqToSet(sweep[s].matching_alerts)
          /\ (/\ sweep[s].pc \in {"dedup", "send"}
              /\ sweep'[s].pc \in {"dedup", "send"}) =>
                 sweep'[s].matching_alerts \in
                     {sweep[s].matching_alerts, Tail(sweep[s].matching_alerts)}
          /\ (session'[s].added # session[s].added /\ session'[s].added # <<>>) =>
                 /\ sweep[s].pc = "send"
                 /\ session'[s].added[1].alert_id = Head(sweep[s].matching_alerts)
          /\ \A k \in DeliveryKeys :
                 deliveries'[k] # deliveries[k] =>
                     \E o \in Sweeps :
                         /\ sweep[o].pc = "send"
                         /\ k[1] = Head(sweep[o].matching_alerts)
      ]_vars

\* alert 1 was switched off, after that a poll stored a new job that its
\* criteria accept, and the alert got no message and no ledger row
InactiveAlertPassedOver ==
    /\ \E a \in user_alerts :
           /\ ~a.is_active
           /\ \E j \in jobs : job_matches_alert(j, companies[j.company_id].slug, a)
    /\ \E i \in 1..Len(poll_logs) :
           poll_logs[i].status = "success" /\ poll_logs[i].new_jobs = 1
    /\ notifications = {}
    /\ \A k \in DeliveryKeys : deliveries[k] = 0

\* C37 as it is worded: whenever a poll posts a message for an alert or
\* records an attempt for it, the alert's is_active is true at that moment.
InactiveNeverNotified ==
    [][\A s \in Sweeps :
          (/\ sweep[s].pc = "send"
           /\ \/ deliveries' # deliveries
              \/ session'[s].added # session[s].added) =>
              \A a \in user_alerts :
                  a.id = Head(sweep[s].matching_alerts) => a.is_active
      ]_vars

\* the deliveries with the given outcome that the statistics of a poll
\* account for so far: those of the records done and of the record at hand
accounted(sw, counter) == sw.company_stats[counter] + sw.job_result[counter]

\* the ledger rows with the given status that the poll of s has recorded
rows_recorded(s, status) ==
    {<<n.alert_id, n.job_id>> :
        n \in {m \in session[s].notifications : m.status = status}}
      \cup {<<session[s].added[i].alert_id, session[s].added[i].job_id>> :
               i \in {k \in DOMAIN session[s].added :
                         session[s].added[k].status = status}}

\* the counts a poll has kept so far are those of its ledger rows, and of
\* the records it got
counts_kept(s) ==
    /\ sweep[s].company_stats.new_jobs + sweep[s].company_stats.updated_jobs
           <= sweep[s].company_stats.jobs_found
    /\ accounted(sweep[s], "notifications_sent")
           = Cardinality(rows_recorded(s, "sent"))
    /\ accounted(sweep[s], "notifications_failed")
           = Cardinality(rows_recorded(s, "failed"))

        /\ sweep[s].company_stats.new_jobs = 1
        /\ sweep[s].company_stats.notifications_sent = 1
        /\ sweep[s].company_stats.notifications_failed = 1
        /\ Cardinality({n \in session[s].notifications : n.status = "sent"}) = 1
        /\ Cardinality({n \in session[s].notifications : n.status = "failed"}) = 1

=============================================================================
